---- MODULE Spec2Model ----
(***************************************************************************)
(* A model of the source-acquisition pipeline of Vsearch: the fetch client *)
(* (fetchWithTimeout), the link aggregator (getSearchEngineLinks,          *)
(* filterAndCleanLinks), the scraper orchestrator                          *)
(* (scrapeSourcesWithTimeout) and the sources API handler (searchHandler). *)
(*                                                                         *)
(* Strings are sequences of tokens (a token is a chunk of characters), so  *)
(* that String.includes, URL parsing and String.length are computed, not   *)
(* assumed.  Long texts are run-length encoded: a sequence of runs         *)
(* [ch, n], n copies of the character ch.                                  *)
(***************************************************************************)
EXTENDS Integers, Sequences, FiniteSets, TLC

VARIABLES
    \* ---- fetchWithTimeout (src/utils/scraper.ts:234-297) ----
    fpc,        \* position of the call: "idle", "head", "sleep", "fetch", "inflight", "returned", "thrown"
    timeout,    \* the timeout argument (ms)
    attempt,    \* the loop variable
    now,        \* ms elapsed since the call started
    deadline,   \* when the abort timer armed by the current attempt fires
    lastError,  \* the variable lastError
    reqLog,     \* one record per network request issued
    sleepLog,   \* one record per backoff sleep
    fresult,    \* what the call resolved with or threw
    \* ---- scrapeSourcesWithTimeout (src/utils/scraper.ts:22-174) ----
    spc,        \* "idle", "running" (awaiting a batch), "returned", "rejected"
    links,      \* the caller's array
    pendingLinks, \* the prioritized links not yet taken into a batch
    batch,      \* the links of the batch in flight
    pipe,       \* per link of the batch: the state of its pipeline
    results,    \* the array results
    fetchCount, \* per link: the fetchWithTimeout calls made for it
    returned,   \* the value the call resolved with
    \* ---- getSearchEngineLinks (src/utils/search-engines/index.ts:14-101) ----
    apc,        \* "idle", "called", "awaitAll", "awaitSingle", "awaitFallback", "returned"
    searchEngine, \* the searchEngine argument
    engine,     \* per engine: the state of the call to it
    engineCalls, \* per engine: the calls made to it
    allLinks,   \* the variable allLinks
    usedEngines, \* the variable usedEngines
    aggResult,  \* the value the call resolved with
    \* ---- searchHandler (src/pages/api/sources.new.ts:28-133, 259-425) ----
    hpc,        \* "idle", "received", "discovering", "scraping", "responded"
    variant,    \* which of the two handlers of sources.new.ts serves the request
    req,        \* the request: its method and its parsed body
    finalLinks, \* the variable finalLinks
    response,   \* the status and the body sent
    \* ---- getGoogleLinks, getBingLinks, getDuckDuckGoLinks ----
    dpc,        \* "idle", "called", "loop", "awaitVariation", "awaitLite", "returned"
    dengine,    \* which of the three functions runs
    dquery,     \* the query argument
    variation,  \* the loop variable i
    engineLinks, \* the function's variable allLinks
    vlog,       \* one record per request issued (variation or lite)
    dresult,    \* the value the call resolved with
    \* ---- the extraction of one fetched page (src/utils/scraper.ts:104-120) ----
    xpc,        \* the statement reached: "idle", "readability", "custom", "simplified", "done"
    xpage,      \* the page fetched (html)
    xlink,      \* the link it was fetched for
    xtechnique, \* the loop variable technique
    invoked,    \* the extraction functions called, in order
    xcontent    \* the variable extractedContent

fvars == <<fpc, timeout, attempt, now, deadline, lastError, reqLog, sleepLog, fresult>>

svars == <<spc, links, pendingLinks, batch, pipe, results, fetchCount, returned>>

avars == <<apc, searchEngine, engine, engineCalls, allLinks, usedEngines, aggResult>>

hvars == <<hpc, variant, req, finalLinks, response>>

dvars == <<dpc, dengine, dquery, variation, engineLinks, vlog, dresult>>

xvars == <<xpc, xpage, xlink, xtechnique, invoked, xcontent>>

vars == <<fvars, svars, avars, hvars, dvars, xvars>>

\* What the steps of one component leave alone.
exceptFetch == <<svars, avars, hvars, dvars, xvars>>
exceptScrape == <<fvars, avars, hvars, dvars, xvars>>
exceptAgg == <<fvars, svars, hvars, dvars, xvars>>
exceptHandler == <<fvars, dvars, xvars>>
exceptDiscovery == <<fvars, svars, avars, hvars, xvars>>
exceptExtraction == <<fvars, svars, avars, hvars, dvars>>

-----------------------------------------------------------------------------
(* Generic helpers *)

Max(a, b) == IF a >= b THEN a ELSE b
Min(a, b) == IF a <= b THEN a ELSE b

RECURSIVE Pow2(_)
Pow2(n) == IF n <= 0 THEN 1 ELSE 2 * Pow2(n - 1)


RECURSIVE SumSeq(_)
SumSeq(s) == IF s = <<>> THEN 0 ELSE Head(s) + SumSeq(Tail(s))

\* Array.prototype.slice(0, n), n >= 0.
Take(s, n) == SubSeq(s, 1, Min(n, Len(s)))

\* Array.from(new Set(s)): the first occurrence of every element, in order.
RECURSIVE Unique(_)
Unique(s) ==
    IF s = <<>> THEN <<>>
    ELSE LET init == Unique(SubSeq(s, 1, Len(s) - 1))
             x == s[Len(s)]
         IN  IF \E i \in 1..Len(init) : init[i] = x THEN init ELSE Append(init, x)

RECURSIVE SortByScoreDesc_Unstable(_)
SortByScoreDesc_Unstable(s) ==
    IF s = <<>> THEN <<>>
    ELSE LET init == SortByScoreDesc_Unstable(SubSeq(s, 1, Len(s) - 1))
             x == s[Len(s)]
             k == Cardinality({i \in 1..Len(init) : init[i].score > x.score})
         IN  SubSeq(init, 1, k) \o <<x>> \o SubSeq(init, k + 1, Len(init))

\* Array.prototype.sort((a, b) => b.score - a.score) on records with a score
\* field: a stable sort, highest score first (an insertion sort from the left).
RECURSIVE SortByScoreDesc(_)
SortByScoreDesc(s) ==
    IF s = <<>> THEN <<>>
    ELSE LET init == SortByScoreDesc(SubSeq(s, 1, Len(s) - 1))
             x == s[Len(s)]
             k == Cardinality({i \in 1..Len(init) : init[i].score >= x.score})
         IN  SubSeq(init, 1, k) \o <<x>> \o SubSeq(init, k + 1, Len(init))

-----------------------------------------------------------------------------
(* Strings as token sequences; URLs *)

\* String.prototype.includes: pat occurs in s as a contiguous run of tokens.
Includes(s, pat) ==
    \E i \in 0..(Len(s) - Len(pat)) : SubSeq(s, i + 1, i + Len(pat)) = pat

\* The first position after the scheme holding one of the tokens in stops, or
\* Len(link) + 1.
FirstOf(link, stops) ==
    LET hits == {i \in 2..Len(link) : link[i] \in stops}
    IN  IF hits = {} THEN Len(link) + 1 ELSE CHOOSE i \in hits : \A j \in hits : i <= j

\* new URL(link) does not throw.
UrlParses(link) ==
    /\ Len(link) >= 2
    /\ link[1] \in {"https://", "http://"}
    /\ FirstOf(link, {"/", "?"}) > 2

\* String.prototype.toLowerCase, token by token.
LowerToken(t) ==
    CASE t = "WWW" -> "www"
      [] t = "YOUTUBE" -> "youtube"
      [] t = "COM" -> "com"
      [] t = "Login" -> "login"
      [] OTHER -> t

ToLowerCase(s) == [i \in 1..Len(s) |-> LowerToken(s[i])]

\* new URL(link).hostname (the URL parser lower-cases the host)
Hostname(link) == ToLowerCase(SubSeq(link, 2, FirstOf(link, {"/", "?"}) - 1))

\* new URL(link).pathname ("/" when the link has no path)
Pathname(link) ==
    LET from == FirstOf(link, {"/", "?"})
        to == FirstOf(link, {"?"})
    IN  IF from >= to THEN <<"/">> ELSE SubSeq(link, from, to - 1)

\* new URL(link).search ("" when nothing follows the "?")
Search(link) ==
    LET q == FirstOf(link, {"?"})
    IN  IF q >= Len(link) THEN <<>> ELSE SubSeq(link, q, Len(link))

\* pathname.split('/').length
PathSplitLength(link) ==
    Cardinality({i \in 1..Len(Pathname(link)) : Pathname(link)[i] = "/"}) + 1

\* pathname.split('/').filter(Boolean): the non-empty segments.
RECURSIVE SegmentsFrom(_, _, _)
SegmentsFrom(path, cur, acc) ==
    IF path = <<>> THEN (IF cur = <<>> THEN acc ELSE Append(acc, cur))
    ELSE IF Head(path) = "/"
         THEN SegmentsFrom(Tail(path), <<>>, IF cur = <<>> THEN acc ELSE Append(acc, cur))
         ELSE SegmentsFrom(Tail(path), Append(cur, Head(path)), acc)
PathParts(link) == SegmentsFrom(Pathname(link), <<>>, <<>>)

\* The links the scraper is handed in the runs below.
Link ==
    [wiki |-> <<"https://", "en", ".", "wikipedia", ".", "org", "/", "wiki", "/", "rust">>,
     edu |-> <<"https://", "mit", ".", "edu", "/", "login">>,
     a |-> <<"https://", "a", ".", "com", "/">>,
     b |-> <<"https://", "www", ".", "b", ".", "com", "/", "docs", "/", "guide", ".", "html",
             "?", "x">>,
     c |-> <<"https://", "c", ".", "io", "/", "post", "-", "one">>,
     d |-> <<"http://", "d", ".", "net">>,
     bad |-> <<"not a url">>,
     noScheme |-> <<"b", ".", "com", "/", "page">>,
     deep |-> <<"https://", "a", ".", "com">> \o [i \in 1..37 |-> "/"]
              \o <<"login", "?", "x">>]

-----------------------------------------------------------------------------
(* Texts, run-length encoded: <<[ch |-> "a", n |-> 201]>> is 201 times "a" *)

Run(c, k) == [ch |-> c, n |-> k]

\* String.length
TextLen(t) == SumSeq([i \in 1..Len(t) |-> t[i].n])

\* The canonical encoding: no empty run, no two adjacent runs of one character.
RECURSIVE Norm(_)
Norm(t) ==
    IF t = <<>> THEN <<>>
    ELSE LET h == Head(t)
             r == Norm(Tail(t))
         IN  IF h.n = 0 THEN r
             ELSE IF r # <<>> /\ Head(r).ch = h.ch
                  THEN <<Run(h.ch, h.n + Head(r).n)>> \o Tail(r)
                  ELSE <<h>> \o r

\* The characters \s matches.
IsSpace(c) == c \in {" ", "\n", "\t"}

\* text.replace(/\s+/g, ' ')
CollapseWhitespace(t) ==
    LET spaced == Norm([i \in 1..Len(t) |->
                          IF IsSpace(t[i].ch) THEN Run(" ", t[i].n) ELSE t[i]])
    IN  [i \in 1..Len(spaced) |->
           IF spaced[i].ch = " " THEN Run(" ", 1) ELSE spaced[i]]

\* String.prototype.trim
RECURSIVE TrimStart(_)
TrimStart(t) ==
    IF t # <<>> /\ IsSpace(Head(t).ch) THEN TrimStart(Tail(t)) ELSE t
RECURSIVE TrimEnd(_)
TrimEnd(t) ==
    IF t # <<>> /\ IsSpace(t[Len(t)].ch) THEN TrimEnd(SubSeq(t, 1, Len(t) - 1)) ELSE t
Trim(t) == TrimEnd(TrimStart(t))

\* text.split(sep) for sep = k line feeds: a run of n line feeds holds n \div k
\* separators, and the n % k line feeds left over start the next piece.
RECURSIVE SplitFrom(_, _, _, _)
SplitFrom(t, k, cur, acc) ==
    IF t = <<>> THEN Append(acc, Norm(cur))
    ELSE LET h == Head(t)
             q == h.n \div k
             r == h.n % k
         IN  IF h.ch # "\n" \/ q = 0
             THEN SplitFrom(Tail(t), k, Append(cur, h), acc)
             ELSE SplitFrom(Tail(t), k, <<Run("\n", r)>>,
                            Append(acc, Norm(cur)) \o [i \in 1..(q - 1) |-> <<>>])
SplitLines(t, k) == SplitFrom(Norm(t), k, <<>>, <<>>)

\* pieces.join(sep) for sep = k line feeds
RECURSIVE JoinLines(_, _)
JoinLines(pieces, k) ==
    IF pieces = <<>> THEN <<>>
    ELSE IF Len(pieces) = 1 THEN Norm(pieces[1])
    ELSE Norm(pieces[1] \o <<Run("\n", k)>> \o JoinLines(Tail(pieces), k))

\* text.substring(0, n)
RECURSIVE Substring(_, _)
Substring(t, n) ==
    IF t = <<>> \/ n <= 0 THEN <<>>
    ELSE IF Head(t).n >= n THEN <<Run(Head(t).ch, n)>>
    ELSE <<Head(t)>> \o Substring(Tail(t), n - Head(t).n)

\* extraction.ts:222-244
processExtractedText(text) ==
    LET collapsed == CollapseWhitespace(Norm(text))
        rawLines == SplitLines(collapsed, 1)
        lines == SelectSeq([i \in 1..Len(rawLines) |-> Trim(rawLines[i])], LAMBDA line : TextLen(line) > 0)
        joined == JoinLines(lines, 1)
        paragraphs == SplitLines(joined, 2)
        uniqueParagraphs == Unique(paragraphs)
        processed == JoinLines(uniqueParagraphs, 2)
    IN  IF TextLen(processed) > 8000
        THEN Norm(Substring(processed, 8000) \o <<Run(".", 3)>>)
        ELSE processed

-----------------------------------------------------------------------------
(* extraction.ts *)

Null == [isNull |-> TRUE]
IsSource(x) == DOMAIN x = {"url", "text", "title"}

\* hostname.replace(/^www\./, '')
StripLeadingWww(hostname) ==
    IF Len(hostname) >= 2 /\ hostname[1] = "www" /\ hostname[2] = "."
    THEN SubSeq(hostname, 3, Len(hostname)) ELSE hostname

\* pathParts[pathParts.length - 1], or ''
LastPart(pathParts) ==
    IF Len(pathParts) > 0 THEN pathParts[Len(pathParts)] ELSE <<>>

\* .replace(/\.\w+$/, '')
StripExtension(part) ==
    IF Len(part) >= 2 /\ part[Len(part) - 1] = "." THEN SubSeq(part, 1, Len(part) - 2) ELSE part

\* lastPart.replace(/[-_]/g, ' ').replace(/\.\w+$/, '').trim(); a separator
\* between two words stays as the token " ".
CleanedPart(lastPart) ==
    LET spaced == StripExtension([i \in 1..Len(lastPart) |->
                      IF lastPart[i] \in {"-", "_"} THEN " " ELSE lastPart[i]])
        inner == {i \in 1..Len(spaced) : spaced[i] # " "}
    IN  IF inner = {} THEN <<>>
        ELSE SubSeq(spaced, CHOOSE i \in inner : \A j \in inner : i <= j,
                            CHOOSE i \in inner : \A j \in inner : i >= j)

TitleOf(cleanedPart, domain) ==
    IF cleanedPart # <<>> THEN cleanedPart \o <<" - ">> \o domain ELSE domain

\* extraction.ts:249-272 (and scraper.ts:179-202)
extractTitle(url) ==
    IF ~UrlParses(url) THEN url
    ELSE TitleOf(CleanedPart(LastPart(PathParts(url))), StripLeadingWww(Hostname(url)))

\* a || b on strings
OrElse(a, b) == IF a # <<>> THEN a ELSE b

\* A parsed page, as the DOM libraries present it:
\*   title          document.title
\*   article        Readability's parse(): Null or [text, title]
\*   selectorTexts  for each selector that matches, in selector order, the
\*                  combined text of its elements
\*   textBlocks     what findLargestTextBlocks returns
\*   paragraphs     the trimmed text of each <p>
\*   bodyText       $('body').text()

\* extraction.ts:13-36
extractWithReadability(page, url) ==
    IF ~UrlParses(url) THEN Null
    ELSE IF page.article # Null /\ TextLen(page.article.text) > 200
         THEN [text |-> page.article.text,
               title |-> OrElse(page.article.title, OrElse(page.title, extractTitle(url)))]
         ELSE Null

\* extraction.ts:41-113
extractWithCustomSelectors(page, url) ==
    IF ~UrlParses(url) THEN Null
    ELSE LET hits == {i \in 1..Len(page.selectorTexts) : TextLen(page.selectorTexts[i]) > 200}
         IN  IF hits # {}
             THEN [text |-> page.selectorTexts[CHOOSE i \in hits : \A j \in hits : i <= j],
                   title |-> OrElse(page.title, extractTitle(url))]
             ELSE IF TextLen(page.textBlocks) > 200
                  THEN [text |-> page.textBlocks,
                        title |-> OrElse(page.title, extractTitle(url))]
                  ELSE Null

LongParagraph(t) == TextLen(t) > 20

\* extraction.ts:118-171
extractWithSimplifiedMethod(page, url) ==
    LET title == OrElse(page.title, extractTitle(url))
        paragraphs == SelectSeq(page.paragraphs, LongParagraph)
        rawLines == SplitLines(Trim(CollapseWhitespace(Norm(page.bodyText))), 1)
        cleanedText == JoinLines(SelectSeq([i \in 1..Len(rawLines) |-> Trim(rawLines[i])],
                                           LongParagraph), 2)
    IN  IF Len(paragraphs) > 0
        THEN [text |-> JoinLines(paragraphs, 2), title |-> title]
        ELSE IF TextLen(page.bodyText) > 200 /\ TextLen(cleanedText) > 200
             THEN [text |-> cleanedText, title |-> title]
             ELSE Null

calculateContentQualityScore_NoCap(source) ==
    TextLen(source.text)
    + (IF source.title # <<>> THEN 1000 ELSE 0)
    + (IF UrlParses(source.url)
          /\ (\/ Includes(Hostname(source.url), <<".", "edu">>)
              \/ Includes(Hostname(source.url), <<".", "gov">>)
              \/ Includes(Hostname(source.url), <<"wikipedia", ".", "org">>))
       THEN 2000 ELSE 0)

\* extraction.ts:290-312, times 100 (text.length / 100 is not an integer).
calculateContentQualityScore(source) ==
    Min(TextLen(source.text), 5000)
    + (IF source.title # <<>> THEN 1000 ELSE 0)
    + (IF UrlParses(source.url)
          /\ (\/ Includes(Hostname(source.url), <<".", "edu">>)
              \/ Includes(Hostname(source.url), <<".", "gov">>)
              \/ Includes(Hostname(source.url), <<"wikipedia", ".", "org">>))
       THEN 2000 ELSE 0)

\* extraction.ts:277-285
sortSourcesByQuality(sources) ==
    LET scored == [i \in 1..Len(sources) |->
                     [item |-> sources[i], score |-> calculateContentQualityScore(sources[i])]]
        sorted == SortByScoreDesc(scored)
    IN  [i \in 1..Len(sorted) |-> sorted[i].item]

\* extraction.ts:326: hostname.replace('www.', '')
FallbackDomain(link) ==
    LET h == Hostname(link)
        hits == {i \in 1..(Len(h) - 1) : h[i] = "www" /\ h[i + 1] = "."}
    IN  IF hits = {} THEN h
        ELSE LET k == CHOOSE i \in hits : \A j \in hits : i <= j
             IN  SubSeq(h, 1, k - 1) \o SubSeq(h, k + 2, Len(h))

\* The templated texts of extraction.ts:330 and 342: 25 characters, the domain
\* (a host name has at most 253 characters; here each of its tokens counts as
\* one character) and 131 more; the generic text has 186.
FallbackSource(link) ==
    [url |-> link,
     text |-> Norm(<<Run("x", 25)>> \o [i \in 1..Len(FallbackDomain(link)) |-> Run("d", 1)]
                   \o <<Run("x", 131)>>),
     title |-> <<"Information from ">> \o FallbackDomain(link)]

createFallbackSources_NoGeneric(ls) ==
    LET valid == SelectSeq(Take(ls, 3), UrlParses)
    IN  [i \in 1..Len(valid) |-> FallbackSource(valid[i])]

\* extraction.ts:317-348
createFallbackSources(ls) ==
    LET topLinks == Take(ls, 3)
        valid == SelectSeq(topLinks, UrlParses)
        fallbackSources == [i \in 1..Len(valid) |-> FallbackSource(valid[i])]
    IN  IF Len(fallbackSources) = 0 /\ Len(ls) > 0
        THEN <<[url |-> ls[1], text |-> <<Run("x", 186)>>, title |-> <<"Search Results">>]>>
        ELSE fallbackSources

\* extraction.ts:355-390: the score of one link.
LinkScore(link) ==
    IF ~UrlParses(link) THEN -100
    ELSE (IF \/ Includes(Hostname(link), <<".", "edu">>)
             \/ Includes(Hostname(link), <<".", "gov">>)
             \/ Includes(Hostname(link), <<"wikipedia", ".", "org">>)
             \/ Includes(Hostname(link), <<"github", ".", "com">>)
             \/ Includes(Hostname(link), <<"stackoverflow", ".", "com">>)
             \/ Includes(Hostname(link), <<"medium", ".", "com">>)
          THEN 30 ELSE 0)
         - PathSplitLength(link) * 2
         - (IF Len(Search(link)) > 0 THEN 5 ELSE 0)
         - (IF \/ Includes(Pathname(link), <<"login">>)
               \/ Includes(Pathname(link), <<"signup">>)
               \/ Includes(Pathname(link), <<"account">>)
            THEN 20 ELSE 0)

prioritizeLinks_InputOrder(ls) == ls

\* extraction.ts:353-397
prioritizeLinks(ls) ==
    LET scoredLinks == [i \in 1..Len(ls) |-> [item |-> ls[i], score |-> LinkScore(ls[i])]]
        sorted == SortByScoreDesc(scoredLinks)
    IN  [i \in 1..Len(sorted) |-> sorted[i].item]

-----------------------------------------------------------------------------
(* fetchWithTimeout *)

MAX_RETRIES == 3
RETRY_DELAY == 1000
FETCH_TIMEOUT == 15000

\* The timeouts the callers pass: FETCH_TIMEOUT + technique * 5000 (scraper.ts:47).
TechniqueTimeout(technique) == FETCH_TIMEOUT + technique * 5000

\* What one network request can end with.
Statuses == {200, 403, 404, 429, 500, 503}
NetOutcomes ==
    [kind : {"response"}, status : Statuses]
    \cup [kind : {"error"}, name : {"TypeError"}, cors : {TRUE, FALSE}]
    \cup [kind : {"error"}, name : {"AbortError"}, cors : {FALSE}]

NoError == [kind |-> "null"]
Pending == [kind |-> "pending"]
HttpError(status) == [kind |-> "error", name |-> "Error", cors |-> FALSE, status |-> status]

\* response.ok
ResponseOk(status) == status >= 200 /\ status <= 299

RetryStatus_Only5xx(status) == status >= 500

RetryStatus_AnyNonOk(status) == TRUE

\* scraper.ts:276
RetryStatus(status) == status = 429 \/ status >= 500

NoRetryError_CorsOnly(e) == e.cors

\* scraper.ts:287
NoRetryError(e) == e.name = "AbortError" \/ e.cors

\* scraper.ts:240
TimeoutMs(base, k) == base * (k + 1)

\* scraper.ts:258
BackoffMs(k) == RETRY_DELAY * Pow2(k - 1)

\* How long a request that is not aborted takes (ms).
NetLatency == 100

FetchIdle ==
    /\ fpc = "idle" /\ timeout = 0 /\ attempt = 0 /\ now = 0 /\ deadline = 0
    /\ lastError = NoError /\ reqLog = <<>> /\ sleepLog = <<>> /\ fresult = NoError

FetchInit ==
    /\ fpc = "head"
    /\ timeout \in {TechniqueTimeout(technique) : technique \in 0..2}
    /\ attempt = 0 /\ now = 0 /\ deadline = 0
    /\ lastError = NoError /\ reqLog = <<>> /\ sleepLog = <<>> /\ fresult = NoError

\* Loop head with attempts left: the AbortController's timer is armed (line 241),
\* before the backoff sleep of line 258.
FetchArm ==
    /\ fpc = "head" /\ attempt < MAX_RETRIES
    /\ deadline' = now + TimeoutMs(timeout, attempt)
    /\ fpc' = IF attempt > 0 THEN "sleep" ELSE "fetch"
    /\ UNCHANGED <<timeout, attempt, now, lastError, reqLog, sleepLog, fresult>>
    /\ UNCHANGED exceptFetch

\* Lines 257-260.
FetchSleep ==
    /\ fpc = "sleep"
    /\ now' = now + BackoffMs(attempt)
    /\ sleepLog' = Append(sleepLog, [attempt |-> attempt, ms |-> BackoffMs(attempt),
                                     requests |-> Len(reqLog)])
    /\ fpc' = "fetch"
    /\ UNCHANGED <<timeout, attempt, deadline, lastError, reqLog, fresult>>
    /\ UNCHANGED exceptFetch

\* Line 262: the request goes out with the controller's signal.
FetchIssue ==
    /\ fpc = "fetch"
    /\ reqLog' = Append(reqLog, [attempt |-> attempt,
                                 timeoutMs |-> TimeoutMs(timeout, attempt),
                                 budget |-> deadline - now,
                                 sleeps |-> Len(sleepLog),
                                 outcome |-> Pending])
    /\ fpc' = "inflight"
    /\ UNCHANGED <<timeout, attempt, now, deadline, lastError, sleepLog, fresult>>
    /\ UNCHANGED exceptFetch

\* Lines 269-292: the request settles and the attempt ends.
FetchSettle(o) ==
    /\ fpc = "inflight"
    /\ now' = IF o.kind = "error" /\ o.name = "AbortError" THEN deadline
              ELSE Min(now + NetLatency, deadline)
    /\ IF o.kind = "response"
       THEN IF ResponseOk(o.status)
            THEN /\ fpc' = "returned" /\ fresult' = o
                 /\ UNCHANGED <<attempt, lastError>>
            ELSE IF RetryStatus(o.status)
                 THEN /\ lastError' = HttpError(o.status)
                      /\ attempt' = attempt + 1
                      /\ fpc' = "head"
                      /\ UNCHANGED fresult
                 ELSE /\ fpc' = "returned" /\ fresult' = o
                      /\ UNCHANGED <<attempt, lastError>>
       ELSE /\ lastError' = o
            /\ IF NoRetryError(o)
               THEN /\ fpc' = "thrown" /\ fresult' = o
                    /\ UNCHANGED attempt
               ELSE /\ attempt' = attempt + 1
                    /\ fpc' = "head"
                    /\ UNCHANGED fresult
    /\ reqLog' = [reqLog EXCEPT ![Len(reqLog)].outcome = o]
    /\ UNCHANGED <<timeout, deadline, sleepLog>>
    /\ UNCHANGED exceptFetch

FetchExhausted_FirstError ==
    /\ fpc = "head" /\ attempt >= MAX_RETRIES
    /\ fpc' = "thrown"
    /\ fresult' = (IF reqLog[1].outcome.kind = "response"
                   THEN HttpError(reqLog[1].outcome.status)
                   ELSE reqLog[1].outcome)
    /\ UNCHANGED <<timeout, attempt, now, deadline, lastError, reqLog, sleepLog>>
    /\ UNCHANGED exceptFetch

FetchExhausted_ResolvesLast ==
    /\ fpc = "head" /\ attempt >= MAX_RETRIES
    /\ IF reqLog[Len(reqLog)].outcome.kind = "response"
       THEN fpc' = "returned" /\ fresult' = reqLog[Len(reqLog)].outcome
       ELSE fpc' = "thrown" /\ fresult' = lastError
    /\ UNCHANGED <<timeout, attempt, now, deadline, lastError, reqLog, sleepLog>>
    /\ UNCHANGED exceptFetch

\* Line 296.
FetchExhausted ==
    /\ fpc = "head" /\ attempt >= MAX_RETRIES
    /\ fpc' = "thrown"
    /\ fresult' = lastError
    /\ UNCHANGED <<timeout, attempt, now, deadline, lastError, reqLog, sleepLog>>
    /\ UNCHANGED exceptFetch

fetchWithTimeout ==
    \/ FetchArm
    \/ FetchSleep
    \/ FetchIssue
    \/ \E o \in NetOutcomes : FetchSettle(o)
    \/ FetchExhausted

-----------------------------------------------------------------------------
(* filterAndCleanLinks (src/utils/scraper.ts:314-358) *)

\* scraper.ts:325-332.  A deny-list entry is a run of whole tokens.
invalidDomains ==
    { <<"google", ".", "com">>, <<"youtube", ".", "com">>, <<"facebook", ".", "com">>,
      <<"twitter", ".", "com">>, <<"instagram", ".", "com">>, <<"linkedin", ".", "com">>,
      <<"pinterest", ".", "com">>, <<"amazon", ".", "com">>, <<"ebay", ".", "com">>,
      <<"netflix", ".", "com">>, <<"apple", ".", "com">>, <<"microsoft", ".", "com">>,
      <<"play", ".", "google", ".", "com">>, <<"accounts", ".", "google", ".", "com">>,
      <<"support", ".", "google", ".", "com">>, <<"maps", ".", "google", ".", "com">>,
      <<"policies", ".", "google", ".", "com">>, <<"translate", ".", "google", ".", "com">>,
      <<"chrome", ".", "google", ".", "com">>, <<"docs", ".", "google", ".", "com">>,
      <<"drive", ".", "google", ".", "com">>, <<"mail", ".", "google", ".", "com">>,
      <<"calendar", ".", "google", ".", "com">> }

\* scraper.ts:339-344
invalidPatterns ==
    { <<"/", "search", "?">>, <<"/", "login">>, <<"/", "signin">>, <<"/", "signup">>,
      <<"/", "register">>, <<"/", "account">>, <<"/", "cart">>, <<"/", "checkout">>,
      <<"/", "privacy">>, <<"/", "terms">>, <<"/", "contact">>, <<"/", "about">>,
      <<"/", "help">>, <<"/", "support">>, <<"/", "faq">>, <<"/", "download">>,
      <<"/", "subscribe">>, <<"/", "membership">>, <<"/", "pricing">> }

\* scraper.ts:319-354: the filter callback.
KeepLink(link) ==
    /\ UrlParses(link)
    /\ ~\E domain \in invalidDomains : Includes(ToLowerCase(Hostname(link)), domain)
    /\ ~\E pattern \in invalidPatterns : Includes(Pathname(link), pattern)

\* scraper.ts:357
MaxFiltered == 20

filterAndCleanLinks_NoDedupe(ls) == Take(SelectSeq(ls, KeepLink), MaxFiltered)

filterAndCleanLinks_NoSlice(ls) == SelectSeq(Unique(ls), KeepLink)

filterAndCleanLinks(ls) == Take(SelectSeq(Unique(ls), KeepLink), MaxFiltered)

-----------------------------------------------------------------------------
(* getSearchEngineLinks (src/utils/search-engines/index.ts:14-101) *)

Engines == <<"google", "bing", "duckduckgo">>
EngineNames == {Engines[i] : i \in 1..Len(Engines)}

\* The values a request can carry as searchEngine.
SearchEngines == EngineNames \cup {"all", "yahoo"}

\* What the engines can put in their lists besides content pages.
SiteLink(k) == <<"https://", "site", ToString(k), ".", "com", "/", "p", ToString(k)>>
SpecialLinks ==
    << <<"https://", "www", ".", "google", ".", "com", "/", "search", "?", "q">>,
       <<"https://", "site", "1", ".", "com", "/", "login">>,
       <<"https://", "find", ".", "org", "/", "search", "?", "q">>,
       <<"https://", "WWW", ".", "YOUTUBE", ".", "COM", "/", "watch">>,
       <<"https://">>,
       <<"https://", "blog", ".", "org", "/", "about", "-", "us">>,
       <<"https://", "shop", ".", "org", "/", "?", "next", "/", "login">>,
       <<"https://", "docs", ".", "org", "/", "Login">> >>

\* The longest list one engine call resolves with.
MaxEngineLinks == 12

EngineIndex(e) == CHOOSE i \in 1..Len(Engines) : Engines[i] = e

\* The i-th link of engine e: the second link is the same for every engine,
\* every fourth link is a special one, the others are content pages.
EngineLink(e, i) ==
    IF i = 2 THEN Link.wiki
    ELSE IF i % 4 = 0
    THEN SpecialLinks[(((i \div 4) + 2 * (EngineIndex(e) - 1) - 1) % Len(SpecialLinks)) + 1]
    ELSE SiteLink(8 * (EngineIndex(e) - 1) + i - (i \div 4) - (IF i > 2 THEN 1 ELSE 0))

\* An engine's list holds no link twice (the engines skip links they already hold).
EngineList(e, n) == [i \in 1..n |-> EngineLink(e, i)]

EngineResolved(ls) == [st |-> "resolved", links |-> ls]

\* index.ts:27-38: .catch(() => [])
CaughtLinks(es) == IF es.st = "resolved" THEN es.links ELSE <<>>

UsedIfAny_Always(e, ls) == <<e>>

\* index.ts:43-45
UsedIfAny(e, ls) == IF Len(ls) > 0 THEN <<e>> ELSE <<>>

\* index.ts:53-69: the switch, with its default branch.
SelectedEngine(se) == IF se \in {"bing", "duckduckgo"} THEN se ELSE "google"

AggIdle ==
    /\ apc = "idle" /\ searchEngine = "google"
    /\ engine = [e \in EngineNames |-> [st |-> "idle"]]
    /\ engineCalls = [e \in EngineNames |-> 0]
    /\ allLinks = <<>> /\ usedEngines = <<>> /\ aggResult = Null

AggInit ==
    /\ apc = "called" /\ searchEngine \in SearchEngines
    /\ engine = [e \in EngineNames |-> [st |-> "idle"]]
    /\ engineCalls = [e \in EngineNames |-> 0]
    /\ allLinks = <<>> /\ usedEngines = <<>> /\ aggResult = Null

\* index.ts:87-93
AggReturn(ls, used) ==
    /\ allLinks' = ls
    /\ usedEngines' = used
    /\ aggResult' = [links |-> filterAndCleanLinks(ls), usedEngines |-> used]
    /\ apc' = "returned"

\* index.ts:22-39: the three engines are called at once.
AggStartAll ==
    /\ apc = "called" /\ searchEngine = "all"
    /\ engine' = [e \in EngineNames |-> [st |-> "pending"]]
    /\ engineCalls' = [e \in EngineNames |-> engineCalls[e] + 1]
    /\ apc' = "awaitAll"
    /\ UNCHANGED <<searchEngine, allLinks, usedEngines, aggResult, exceptAgg>>

\* index.ts:48-69: the selected engine is called.
AggStartSingle ==
    /\ apc = "called" /\ searchEngine # "all"
    /\ engine' = [engine EXCEPT ![SelectedEngine(searchEngine)] = [st |-> "pending"]]
    /\ engineCalls' = [engineCalls EXCEPT ![SelectedEngine(searchEngine)] = @ + 1]
    /\ apc' = "awaitSingle"
    /\ UNCHANGED <<searchEngine, allLinks, usedEngines, aggResult, exceptAgg>>

\* A pending engine call of the parallel mode resolves with a list or rejects.
EngineSettle(e, es) ==
    /\ apc = "awaitAll"
    /\ engine[e] = [st |-> "pending"]
    /\ engine' = [engine EXCEPT ![e] = es]
    /\ UNCHANGED <<apc, searchEngine, engineCalls, allLinks, usedEngines, aggResult, exceptAgg>>

AggJoinAll_FailFast ==
    /\ apc = "awaitAll"
    /\ \/ \A e \in EngineNames : engine[e].st = "resolved"
       \/ \E e \in EngineNames : engine[e].st = "rejected"
    /\ IF \E e \in EngineNames : engine[e].st = "rejected"
       THEN AggReturn(<<>>, <<>>)
       ELSE AggReturn(engine["google"].links \o engine["bing"].links
                          \o engine["duckduckgo"].links, Engines)
    /\ UNCHANGED <<searchEngine, engine, engineCalls, exceptAgg>>

\* index.ts:39-47, 87-93: Promise.all resolves; the lists are merged in the
\* order google, bing, duckduckgo.
AggJoinAll ==
    /\ apc = "awaitAll"
    /\ \A e \in EngineNames : engine[e].st \in {"resolved", "rejected"}
    /\ LET googleLinks == CaughtLinks(engine["google"])
           bingLinks == CaughtLinks(engine["bing"])
           duckduckgoLinks == CaughtLinks(engine["duckduckgo"])
       IN  AggReturn(googleLinks \o bingLinks \o duckduckgoLinks,
                     UsedIfAny("google", googleLinks) \o UsedIfAny("bing", bingLinks)
                         \o UsedIfAny("duckduckgo", duckduckgoLinks))
    /\ UNCHANGED <<searchEngine, engine, engineCalls, exceptAgg>>

\* index.ts:55-71: the selected engine resolves.
AggSingleResolved(ls) ==
    /\ apc = "awaitSingle"
    /\ engine' = [engine EXCEPT ![SelectedEngine(searchEngine)] = EngineResolved(ls)]
    /\ AggReturn(ls, <<SelectedEngine(searchEngine)>>)
    /\ UNCHANGED <<searchEngine, engineCalls, exceptAgg>>

AggSingleRejected_NoFallback ==
    /\ apc = "awaitSingle"
    /\ engine' = [engine EXCEPT ![SelectedEngine(searchEngine)] = [st |-> "rejected"]]
    /\ AggReturn(allLinks, usedEngines)
    /\ UNCHANGED <<searchEngine, engineCalls, exceptAgg>>

\* index.ts:72-84: the selected engine rejects; Google is tried unless the
\* argument was "google".
AggSingleRejected ==
    /\ apc = "awaitSingle"
    /\ IF searchEngine # "google"
       THEN /\ engine' = [engine EXCEPT ![SelectedEngine(searchEngine)] = [st |-> "rejected"],
                                        !["google"] = [st |-> "pending"]]
            /\ engineCalls' = [engineCalls EXCEPT !["google"] = @ + 1]
            /\ apc' = "awaitFallback"
            /\ UNCHANGED <<allLinks, usedEngines, aggResult>>
       ELSE /\ engine' = [engine EXCEPT !["google"] = [st |-> "rejected"]]
            /\ AggReturn(allLinks, usedEngines)
            /\ UNCHANGED engineCalls
    /\ UNCHANGED <<searchEngine, exceptAgg>>

\* index.ts:78-79, 87-93
AggFallbackResolved(ls) ==
    /\ apc = "awaitFallback"
    /\ engine' = [engine EXCEPT !["google"] = EngineResolved(ls)]
    /\ AggReturn(ls, <<"google (fallback)">>)
    /\ UNCHANGED <<searchEngine, engineCalls, exceptAgg>>

\* index.ts:80-82, 87-93
AggFallbackRejected ==
    /\ apc = "awaitFallback"
    /\ engine' = [engine EXCEPT !["google"] = [st |-> "rejected"]]
    /\ AggReturn(allLinks, usedEngines)
    /\ UNCHANGED <<searchEngine, engineCalls, exceptAgg>>

\* The longest list one engine call resolves with when the handler runs.
MaxHandlerEngineLinks == 1

EngineLengths == IF hpc = "idle" THEN 0..MaxEngineLinks ELSE 0..MaxHandlerEngineLinks

getSearchEngineLinks ==
    \/ AggStartAll
    \/ AggStartSingle
    \/ \E e \in EngineNames, n \in EngineLengths : EngineSettle(e, EngineResolved(EngineList(e, n)))
    \/ \E e \in EngineNames : EngineSettle(e, [st |-> "rejected"])
    \/ AggJoinAll
    \/ \E n \in EngineLengths : AggSingleResolved(EngineList(SelectedEngine(searchEngine), n))
    \/ AggSingleRejected
    \/ \E n \in EngineLengths : AggFallbackResolved(EngineList("google", n))
    \/ AggFallbackRejected

-----------------------------------------------------------------------------
(* scrapeSourcesWithTimeout *)

MAX_CONCURRENT == 4

LinkPool == {Link[k] : k \in DOMAIN Link}

\* Every link a scrape can be asked for.
KnownLinks == LinkPool \cup {EngineLink(e, i) : e \in EngineNames, i \in 1..MaxEngineLinks}

\* The longest link list scraped.
MaxLinks == 5
\* Every list of at most MaxShort links over ShortPool is scraped as well.
MaxShort == 2
ShortPool == {Link.a, Link.wiki, Link.bad, Link.noScheme}

LinkOrders ==
    { <<Link.a, Link.bad, Link.wiki, Link.b, Link.edu, Link.c, Link.noScheme, Link.d>>,
      <<Link.bad, Link.noScheme, Link.a, Link.wiki, Link.c, Link.b, Link.edu, Link.d>> }

RECURSIVE SeqsUpTo(_, _)
SeqsUpTo(S, n) ==
    IF n = 0 THEN {<<>>}
    ELSE LET shorter == SeqsUpTo(S, n - 1)
         IN  shorter \cup {Append(q, x) : q \in shorter, x \in S}

ScrapeInputs ==
    {Take(o, n) : o \in LinkOrders, n \in 0..MaxLinks} \cup SeqsUpTo(ShortPool, MaxShort)

\* Pages the sites serve: nothing to extract; an article Readability
\* accepts; a <main> of 300 spaces; one paragraph of 9000 characters.
EmptyPage ==
    [title |-> <<>>, article |-> Null, selectorTexts |-> <<>>, textBlocks |-> <<>>,
     paragraphs |-> <<>>, bodyText |-> <<>>]
Page ==
    [empty |-> EmptyPage,
     article |-> [EmptyPage EXCEPT !.title = <<"Rust">>,
                                   !.article = [text |-> <<Run("a", 150), Run("\n", 2),
                                                           Run("a", 150)>>,
                                                title |-> <<"Rust">>]],
     blankMain |-> [EmptyPage EXCEPT !.selectorTexts = << <<Run(" ", 300), Run("\n", 2)>> >>],
     long |-> [EmptyPage EXCEPT !.paragraphs = << <<Run("a", 9000)>> >>]]
ScrapePages == {Page[k] : k \in DOMAIN Page}

\* What fetchWithTimeout can resolve with: never a 429 or a 5xx (scraper.ts:272-281).
ReturnableStatuses == {st \in Statuses : ResponseOk(st) \/ ~RetryStatus(st)}

GoodResponse(p) ==
    [kind |-> "response", status |-> 200, contentType |-> <<"text/html", "; charset=utf-8">>, htmlLength |-> 800,
     marker |-> FALSE, textThrows |-> FALSE, page |-> p]

\* What one technique can meet: fetchWithTimeout throws, or resolves with a
\* response (status, content type, body).
TechniqueOutcomes ==
    {[kind |-> "thrown"]}
    \cup {[GoodResponse(EmptyPage) EXCEPT !.status = st] : st \in ReturnableStatuses \ {200}}
    \cup {[GoodResponse(EmptyPage) EXCEPT !.contentType = <<"application/pdf">>],
          [GoodResponse(EmptyPage) EXCEPT !.contentType = <<>>],
          [GoodResponse(Page.article) EXCEPT !.htmlLength = 799],
          [GoodResponse(Page.article) EXCEPT !.marker = TRUE],
          [GoodResponse(Page.article) EXCEPT !.textThrows = TRUE]}
    \cup {GoodResponse(p) : p \in ScrapePages}

\* scraper.ts:117-120
WithSimplified(technique, c, page, link) ==
    IF technique = 2 \/ c = Null THEN extractWithSimplifiedMethod(page, link) ELSE c

\* scraper.ts:112-115
WithCustom(technique, c, page, link) ==
    IF technique = 1 \/ c = Null THEN extractWithCustomSelectors(page, link) ELSE c

\* scraper.ts:105-120: the value of extractedContent after the three ifs.
ExtractedContent(page, link, technique) ==
    WithSimplified(technique,
                   WithCustom(technique,
                              IF technique = 0 THEN extractWithReadability(page, link)
                              ELSE Null,
                              page, link),
                   page, link)

SourceOrContinue_AtLeast200(link, extractedContent) ==
    IF extractedContent # Null /\ TextLen(extractedContent.text) >= 200
    THEN [k |-> "return",
          source |-> [url |-> link,
                      text |-> processExtractedText(extractedContent.text),
                      title |-> OrElse(extractedContent.title, extractTitle(link))]]
    ELSE [k |-> "continue"]

\* scraper.ts:123-134
SourceOrContinue(link, extractedContent) ==
    IF extractedContent # Null /\ TextLen(extractedContent.text) > 200
    THEN [k |-> "return",
          source |-> [url |-> link,
                      text |-> processExtractedText(extractedContent.text),
                      title |-> OrElse(extractedContent.title, extractTitle(link))]]
    ELSE [k |-> "continue"]

\* scraper.ts:59-134: one pass of the technique loop's body on what the fetch
\* brought; the result says how the pass leaves the body.
RunTechnique(link, technique, o) ==
    IF o.kind = "thrown" THEN [k |-> "throw"]
    ELSE IF ~ResponseOk(o.status)
    THEN IF o.status = 403 \/ o.status = 429 THEN [k |-> "continue"]
         ELSE IF technique < 2 THEN [k |-> "continue"] ELSE [k |-> "break"]
    ELSE IF /\ ~Includes(o.contentType, <<"text/html">>)
            /\ ~Includes(o.contentType, <<"application/xhtml+xml">>)
            /\ ~Includes(o.contentType, <<"text/plain">>)
    THEN [k |-> "continue"]
    ELSE IF o.textThrows THEN [k |-> "throw"]
    ELSE IF o.htmlLength < 800 THEN [k |-> "continue"]
    ELSE IF o.marker THEN [k |-> "continue"]
    ELSE SourceOrContinue(link, ExtractedContent(o.page, link, technique))

Fetching(t) == [st |-> "fetching", technique |-> t]
Done(r) == [st |-> "done", result |-> r]
Rejected == [st |-> "rejected"]

NextTechnique_FiveTechniques(technique) ==
    IF technique + 1 < 5 THEN Fetching(technique + 1) ELSE Done(Null)

\* The loop header of scraper.ts:42 after a pass that did not return or break.
NextTechnique(technique) ==
    IF technique + 1 < 3 THEN Fetching(technique + 1) ELSE Done(Null)

OnTechniqueError_NoCatch(technique) == Rejected

\* scraper.ts:136-138: the error of a technique is caught and logged.
OnTechniqueError(technique) == NextTechnique(technique)

\* The pipeline of one link after a pass of the loop body.
AfterTechnique(technique, r) ==
    CASE r.k = "return" -> Done(r.source)
      [] r.k = "break" -> Done(Null)
      [] r.k = "continue" -> NextTechnique(technique)
      [] r.k = "throw" -> OnTechniqueError(technique)

EnoughResults_Never(rs) == FALSE

EnoughResults_Four(rs) == Len(SelectSeq(rs, LAMBDA r : r # Null)) >= 4

\* scraper.ts:154-155
EnoughResults(rs) == Len(SelectSeq(rs, LAMBDA r : r # Null)) >= 3

FinalSources_PriorityOrder(rs, ls) ==
    LET sortedSources == sortSourcesByQuality(SelectSeq(rs, LAMBDA r : r # Null))
    IN  IF Len(sortedSources) = 0 /\ Len(ls) > 0
        THEN createFallbackSources(prioritizeLinks(ls))
        ELSE sortedSources

FinalSources_NoFallback(rs, ls) ==
    sortSourcesByQuality(SelectSeq(rs, LAMBDA r : r # Null))

\* scraper.ts:161-173
FinalSources(rs, ls) ==
    LET validSources == SelectSeq(rs, LAMBDA r : r # Null)
        sortedSources == sortSourcesByQuality(validSources)
    IN  IF Len(sortedSources) = 0 /\ Len(ls) > 0
        THEN createFallbackSources(ls)
        ELSE sortedSources

ScrapeIdle ==
    /\ spc = "idle" /\ links = <<>> /\ pendingLinks = <<>> /\ batch = <<>> /\ pipe = <<>>
    /\ results = <<>> /\ fetchCount = [l \in KnownLinks |-> 0] /\ returned = <<>>

ScrapeInit ==
    /\ spc = "called" /\ links \in ScrapeInputs
    /\ pendingLinks = <<>> /\ batch = <<>> /\ pipe = <<>>
    /\ results = <<>> /\ fetchCount = [l \in KnownLinks |-> 0] /\ returned = <<>>

\* scraper.ts:34-57: the loop takes the next batch and every pipeline of it
\* runs up to its first fetch; with no link left the call returns.
TakeBatchOrReturn(pending, rs) ==
    IF Len(pending) > 0 /\ ~EnoughResults(rs)
    THEN LET b == Take(pending, MAX_CONCURRENT)
         IN  /\ batch' = b
             /\ pendingLinks' = SubSeq(pending, Len(b) + 1, Len(pending))
             /\ pipe' = [i \in 1..Len(b) |-> Fetching(0)]
             /\ fetchCount' = [l \in KnownLinks |->
                                 fetchCount[l] + Cardinality({i \in 1..Len(b) : b[i] = l})]
             /\ spc' = "running"
             /\ results' = rs
             /\ UNCHANGED returned
    ELSE /\ spc' = "returned"
         /\ returned' = FinalSources(rs, links)
         /\ results' = rs
         /\ pendingLinks' = pending
         /\ batch' = <<>> /\ pipe' = <<>>
         /\ UNCHANGED fetchCount

\* scraper.ts:22-36
ScrapeStart ==
    /\ spc = "called"
    /\ TakeBatchOrReturn(prioritizeLinks(links), <<>>)
    /\ UNCHANGED <<links, exceptScrape>>

\* The fetch of pipeline i settles; the pipeline runs on to its next fetch or
\* to its end.
TechniqueSettle(i, o) ==
    /\ spc = "running"
    /\ i \in 1..Len(pipe)
    /\ pipe[i].st = "fetching"
    /\ UrlParses(batch[i]) \/ o.kind = "thrown"
    /\ LET after == AfterTechnique(pipe[i].technique,
                                   RunTechnique(batch[i], pipe[i].technique, o))
       IN  /\ pipe' = [pipe EXCEPT ![i] = after]
           /\ fetchCount' = IF after.st = "fetching"
                            THEN [fetchCount EXCEPT ![batch[i]] = @ + 1]
                            ELSE fetchCount
           /\ spc' = IF after.st = "rejected" THEN "rejected" ELSE spc
    /\ UNCHANGED <<links, pendingLinks, batch, results, returned, exceptScrape>>

BatchJoin_Eager ==
    /\ spc = "running"
    /\ LET done == SelectSeq(pipe, LAMBDA q : q.st = "done")
           got == results \o [i \in 1..Len(done) |-> done[i].result]
       IN  /\ (\A i \in 1..Len(pipe) : pipe[i].st = "done") \/ EnoughResults(got)
           /\ TakeBatchOrReturn(pendingLinks, got)
    /\ UNCHANGED <<links, exceptScrape>>

BatchJoin_Reversed ==
    /\ spc = "running"
    /\ \A i \in 1..Len(pipe) : pipe[i].st = "done"
    /\ TakeBatchOrReturn(pendingLinks,
                         results \o [i \in 1..Len(pipe) |-> pipe[Len(pipe) + 1 - i].result])
    /\ UNCHANGED <<links, exceptScrape>>

\* scraper.ts:38, 151-173: Promise.all resolves when every pipeline has.
BatchJoin ==
    /\ spc = "running"
    /\ \A i \in 1..Len(pipe) : pipe[i].st = "done"
    /\ TakeBatchOrReturn(pendingLinks, results \o [i \in 1..Len(pipe) |-> pipe[i].result])
    /\ UNCHANGED <<links, exceptScrape>>

scrapeSourcesWithTimeout ==
    \/ ScrapeStart
    \/ \E i \in 1..MAX_CONCURRENT, o \in TechniqueOutcomes : TechniqueSettle(i, o)
    \/ BatchJoin

-----------------------------------------------------------------------------
(* searchHandler (src/pages/api/sources.new.ts:28-133, and the single-file  *)
(* variant of the same handler at 259-475)                                 *)

\* JavaScript values of the request body's fields.
Undefined == [type |-> "undefined"]
Str(s) == [type |-> "string", value |-> s]
Num(n) == [type |-> "number", value |-> n]
NullBody == [type |-> "null"]
Body(q, se, sc) == [type |-> "object", query |-> q, searchEngine |-> se, sourceCount |-> sc]

\* !!v
Truthy(v) ==
    CASE v.type = "undefined" -> FALSE
      [] v.type = "string" -> v.value # <<>>
      [] v.type = "number" -> v.value # 0

\* sources.new.ts:23, 180
DEFAULT_SOURCE_COUNT == 4

\* sources.new.ts:183-186
EXCLUDED_DOMAINS ==
    {"google", "facebook", "twitter", "instagram", "youtube", "tiktok",
     "bing", "duckduckgo", "pinterest", "linkedin", "reddit", "quora"}

\* Array.prototype.slice(0, n) for any integer n.
Slice0(s, n) == IF n >= 0 THEN Take(s, n) ELSE Take(s, Max(Len(s) + n, 0))

\* The first link of every hostname (sources.new.ts:445-456).
RECURSIVE FirstPerHostname(_)
FirstPerHostname(ls) ==
    IF ls = <<>> THEN <<>>
    ELSE LET init == FirstPerHostname(SubSeq(ls, 1, Len(ls) - 1))
             x == ls[Len(ls)]
         IN  IF \E i \in 1..Len(init) : Hostname(init[i]) = Hostname(x)
             THEN init ELSE Append(init, x)

NotExcluded(link) ==
    /\ UrlParses(link)
    /\ \A excluded \in EXCLUDED_DOMAINS : ~Includes(Hostname(link), <<excluded>>)

\* sources.new.ts:430-457
filterAndDeduplicateLinks(ls) == FirstPerHostname(SelectSeq(ls, NotExcluded))

\* charAt(0).toUpperCase() + slice(1), on the first token.
CapitalizeToken(t) ==
    CASE t = "rust" -> "Rust"
      [] t = "p" -> "P"
      [] t = "login" -> "Login"
      [] t = "guide" -> "Guide"
      [] t = "post" -> "Post"
      [] t = "page" -> "Page"
      [] t = "watch" -> "Watch"
      [] t = "search" -> "Search"
      [] t = "about" -> "About"
      [] OTHER -> t

Capitalize(s) == IF s = <<>> THEN s ELSE <<CapitalizeToken(s[1])>> \o Tail(s)

\* pathSegment.replace(/\.\w+$/, '').replace(/-|_/g, ' ')
CleanPathSegment(pathSegment) ==
    [i \in 1..Len(StripExtension(pathSegment)) |->
        IF StripExtension(pathSegment)[i] \in {"-", "_"} THEN " "
        ELSE StripExtension(pathSegment)[i]]

\* sources.new.ts:480-499: the handler file's own extractTitle.
extractTitleOfUrl(url) ==
    IF ~UrlParses(url) THEN url
    ELSE TitleOf(Capitalize(CleanPathSegment(LastPart(PathParts(url)))),
                 StripLeadingWww(Hostname(url)))

ProcessedSource(source) ==
    [url |-> source.url, text |-> Substring(source.text, 1500),
     title |-> extractTitleOfUrl(source.url)]

\* sources.new.ts:462-475
processSources(sources) ==
    LET filteredSources == SelectSeq(sources, LAMBDA source : TextLen(source.text) > 100)
    IN  [i \in 1..Len(filteredSources) |-> ProcessedSource(filteredSources[i])]

\* usedEngines.join('+')
RECURSIVE JoinPlus(_)
JoinPlus(used) ==
    IF used = <<>> THEN <<>>
    ELSE IF Len(used) = 1 THEN <<used[1]>>
    ELSE <<used[1], "+">> \o JoinPlus(Tail(used))

\* encodeURIComponent, token by token.
EncodeURIComponent(s) == [i \in 1..Len(s) |-> IF s[i] = " " THEN "%20" ELSE s[i]]

\* sources.new.ts:86-98 (381-393): the template has 455 characters around its
\* three substitutions (438 in the single-file variant).
HandlerFallbackSource(v, query, used, found) ==
    [url |-> <<"https://", "www", ".", "google", ".", "com", "/", "search", "?", "q", "=">>
                \o EncodeURIComponent(query),
     title |-> <<"Search results for: ">> \o query,
     text |-> <<Run("x", (IF v = "modular" THEN 455 ELSE 438)
                         + Len(query) + Len(JoinPlus(used)) + (IF found < 10 THEN 1 ELSE 2))>>]

\* The metadata of a 200 response.
Metadata(e, total, filtered, fallback) ==
    [engine |-> e, totalResults |-> total, filteredSources |-> filtered, fallback |-> fallback]

\* The requests served: a method, and a body that is null or an object whose
\* query, searchEngine and sourceCount are absent or hold a value.
Requests ==
    {[method |-> m, body |-> b] :
        m \in {"POST", "GET"},
        b \in {NullBody} \cup
               {Body(q, se, sc) :
                   q \in {Undefined, Str(<<>>), Num(0), Num(42),
                          Str(<<"rust", " ", "ownership">>)},
                   se \in {Undefined, Str("all"), Str("bing"), Str("yahoo")},
                   sc \in {Undefined, Num(-1), Num(0), Num(1)}}}

\* The destructuring defaults of sources.new.ts:40 (268).
SearchEngineOf(body) ==
    IF body.searchEngine = Undefined THEN "google" ELSE body.searchEngine.value
SourceCountOf(body) ==
    IF body.sourceCount = Undefined THEN DEFAULT_SOURCE_COUNT ELSE body.sourceCount.value

\* sources.new.ts:283
LimitedSourceCount(sourceCount) == Min(Max(1, sourceCount), 8)

HandlerIdle ==
    /\ hpc = "idle" /\ variant = "modular"
    /\ req = [method |-> "GET", body |-> NullBody]
    /\ finalLinks = <<>> /\ response = Null

HandlerInit ==
    /\ hpc = "received" /\ variant \in {"modular", "single-file"} /\ req \in Requests
    /\ finalLinks = <<>> /\ response = Null

HandlerAnswer(r) ==
    /\ hpc' = "responded"
    /\ response' = r

\* sources.new.ts:34, 44-50, 125-131 and 262, 276-279, 420-423: the bodies
\* sent with 405, 400 and 500.
ErrorResponse(status) ==
    IF variant = "modular"
    THEN [status |-> status, sources |-> <<>>,
          metadata |-> [engine |-> IF status = 500 THEN "error" ELSE "none"],
          error |-> CASE status = 405 -> ""
                      [] status = 400 -> "Invalid query"
                      [] status = 500 -> "Internal server error"]
    ELSE [status |-> status, sources |-> <<>>, metadata |-> [none |-> TRUE],
          error |-> CASE status = 405 -> "Method not allowed"
                      [] status = 400 -> "Invalid query provided"
                      [] status = 500 -> "Failed to fetch sources. Please try again."]
Ok(sources, metadata) ==
    [status |-> 200, sources |-> sources, metadata |-> metadata, error |-> ""]

\* sources.new.ts:33-58 (261-352): the method check, the destructuring of the
\* body (which throws on a null body, inside the try), the validation of the
\* query, and the call of the link discovery.
HandlerReceive ==
    /\ hpc = "received"
    /\ IF req.method # "POST"
       THEN HandlerAnswer(ErrorResponse(405)) /\ UNCHANGED avars
       ELSE IF req.body = NullBody
       THEN HandlerAnswer(ErrorResponse(500)) /\ UNCHANGED avars
       ELSE IF ~Truthy(req.body.query) \/ req.body.query.type # "string"
       THEN HandlerAnswer(ErrorResponse(400)) /\ UNCHANGED avars
       ELSE /\ hpc' = "discovering"
            /\ apc' = "called"
            /\ searchEngine' = SearchEngineOf(req.body)
            /\ UNCHANGED <<response, engine, engineCalls, allLinks, usedEngines, aggResult>>
    /\ UNCHANGED <<variant, req, finalLinks, exceptHandler, svars>>

\* The links the handler goes on with: the aggregator's filtered list, or in
\* the single-file variant its own filter of the merged list.
HandlerAllLinks == IF variant = "modular" THEN aggResult.links ELSE allLinks
HandlerFinalLinks ==
    IF variant = "modular"
    THEN Slice0(aggResult.links,
                Min(Len(aggResult.links), SourceCountOf(req.body) * 2))
    ELSE Slice0(filterAndDeduplicateLinks(allLinks),
                LimitedSourceCount(SourceCountOf(req.body)))
NoLinks ==
    IF variant = "modular" THEN Len(aggResult.links) = 0 ELSE Len(HandlerFinalLinks) = 0
EngineLabel ==
    IF variant = "modular" /\ usedEngines = <<>> THEN <<"none">> ELSE JoinPlus(usedEngines)

\* sources.new.ts:60-78 (354-373): with no link the handler answers 200 with
\* no source; otherwise it calls the scraper with the final links.
HandlerLinks ==
    /\ hpc = "discovering" /\ apc = "returned"
    /\ IF NoLinks
       THEN /\ HandlerAnswer(Ok(<<>>, Metadata(EngineLabel, 0, 0, FALSE)))
            /\ UNCHANGED <<finalLinks, svars>>
       ELSE /\ finalLinks' = HandlerFinalLinks
            /\ hpc' = "scraping"
            /\ spc' = "called"
            /\ links' = HandlerFinalLinks
            /\ UNCHANGED <<response, pendingLinks, batch, pipe, results, fetchCount, returned>>
    /\ UNCHANGED <<variant, req, exceptHandler, avars>>

ProcessedSources ==
    IF variant = "modular" THEN Slice0(returned, SourceCountOf(req.body))
    ELSE processSources(returned)

ResponseSources_NoFallback(processedSources) == processedSources

\* sources.new.ts:84-122 (379-417): with no processed source the handler
\* answers with one fallback source of its own.
ResponseSources(processedSources) ==
    IF Len(processedSources) = 0
    THEN <<HandlerFallbackSource(variant, req.body.query.value, usedEngines,
                                 Len(HandlerAllLinks))>>
    ELSE processedSources

\* sources.new.ts:80-131 (375-424)
HandlerRespond ==
    /\ hpc = "scraping" /\ spc \in {"returned", "rejected"}
    /\ IF spc = "rejected"
       THEN HandlerAnswer(ErrorResponse(500))
       ELSE HandlerAnswer(Ok(ResponseSources(ProcessedSources),
                             Metadata(JoinPlus(usedEngines), Len(HandlerAllLinks),
                                      Len(ResponseSources(ProcessedSources)),
                                      Len(ProcessedSources) = 0)))
    /\ UNCHANGED <<variant, req, finalLinks, exceptHandler, svars, avars>>

searchHandler ==
    \/ HandlerReceive
    \/ HandlerLinks
    \/ HandlerRespond

-----------------------------------------------------------------------------
(* getGoogleLinks, getBingLinks, getDuckDuckGoLinks *)

\* encodeURIComponent throws a URIError on a lone surrogate (line 17 of each
\* engine, inside the outer try).
Encodable(query) == \A k \in 1..Len(query) : query[k] # "\\uD800"

SiteLinks(from, n) == [k \in 1..n |-> SiteLink(from + k - 1)]

\* A page the endpoint answers with; extracted holds the links the engine's
\* parser finds in it (the anchors, for a page of the lite endpoint).
ResultPage(extracted) ==
    [kind |-> "response", status |-> 200, htmlLength |-> 1000, marker |-> FALSE,
     textThrows |-> FALSE, extracted |-> extracted]

\* What the request of one variation can end with.
VariationOutcomes ==
    {[kind |-> "thrown"]}
    \cup {[ResultPage(<<>>) EXCEPT !.status = st] : st \in {403, 404}}
    \cup {[ResultPage(SiteLinks(1, 7)) EXCEPT !.textThrows = TRUE],
          [ResultPage(SiteLinks(1, 7)) EXCEPT !.htmlLength = 999],
          [ResultPage(SiteLinks(1, 7)) EXCEPT !.marker = TRUE]}
    \cup {ResultPage(ls) : ls \in {<<>>, SiteLinks(1, 7), SiteLinks(8, 7), SiteLinks(8, 8),
                                    SiteLinks(1, 15)}}

LiteOutcomes ==
    {[kind |-> "thrown"], [ResultPage(<<>>) EXCEPT !.status = 404],
     [ResultPage(<<>>) EXCEPT !.textThrows = TRUE]}
    \cup {[ResultPage(ls) EXCEPT !.htmlLength = 300] :
             ls \in {<<>>,
                     <<SiteLink(1), <<"https://", "duckduckgo", ".", "com", "/", "about">>,
                       <<"https://">>, SiteLink(1), SiteLink(2)>>}}

\* Lines 73-77: allLinks.includes / allLinks.push for each extracted link.
RECURSIVE AddNew(_, _)
AddNew(ls, extracted) ==
    IF extracted = <<>> THEN ls
    ELSE AddNew(IF \E k \in 1..Len(ls) : ls[k] = Head(extracted) THEN ls
                ELSE Append(ls, Head(extracted)),
                Tail(extracted))

EnoughLinks_Never(ls) == FALSE

\* Line 28 of each engine.
EnoughLinks(ls) == Len(ls) >= 15

OnVariationError_Abort(ls) == [k |-> "abort"]

\* Lines 79-81 (90-92 of getGoogleLinks): the error of a variation is logged.
OnVariationError(ls) == [k |-> "next", links |-> ls]

\* Lines 38-78 of the loop body on what the request brought. Only
\* getGoogleLinks looks for a block marker (part_003:70-75).
AfterVariation(e, ls, o) ==
    IF o.kind = "thrown" THEN OnVariationError(ls)
    ELSE IF ~ResponseOk(o.status) THEN [k |-> "next", links |-> ls]
    ELSE IF o.textThrows THEN OnVariationError(ls)
    ELSE IF o.htmlLength < 1000 THEN [k |-> "next", links |-> ls]
    ELSE IF e = "google" /\ o.marker THEN [k |-> "next", links |-> ls]
    ELSE [k |-> "next", links |-> AddNew(ls, o.extracted)]

LiteRequested_Always(ls) == TRUE

\* duckduckgo.ts:85
LiteRequested(ls) == Len(ls) = 0

\* duckduckgo.ts:100-116
AfterLite(ls, o) ==
    IF o.kind = "thrown" \/ ~ResponseOk(o.status) \/ o.textThrows THEN ls
    ELSE AddNew(ls, SelectSeq(o.extracted,
                              LAMBDA href : /\ ~Includes(href, <<"duckduckgo", ".", "com">>)
                                            /\ UrlParses(href)))

DiscoveryIdle ==
    /\ dpc = "idle" /\ dengine = "google" /\ dquery = <<>> /\ variation = 0
    /\ engineLinks = <<>> /\ vlog = <<>> /\ dresult = Null

DiscoveryInit ==
    /\ dpc = "called" /\ dengine \in EngineNames /\ dquery \in {<<"rust">>, <<"rust", "\\uD800">>}
    /\ variation = 0 /\ engineLinks = <<>> /\ vlog = <<>> /\ dresult = Null

\* Lines 11-24, and 97-100 when the search URLs cannot be built.
DiscoveryStart ==
    /\ dpc = "called"
    /\ IF Encodable(dquery)
       THEN dpc' = "loop" /\ UNCHANGED dresult
       ELSE dpc' = "returned" /\ dresult' = <<>>
    /\ UNCHANGED <<dengine, dquery, variation, engineLinks, vlog, exceptDiscovery>>

\* Lines 27-38: the loop goes on and the request of variation i goes out.
VariationIssue ==
    /\ dpc = "loop" /\ variation < 3 /\ ~EnoughLinks(engineLinks)
    /\ vlog' = Append(vlog, [kind |-> "variation", i |-> variation,
                           held |-> Len(engineLinks), outcome |-> Pending])
    /\ dpc' = "awaitVariation"
    /\ UNCHANGED <<dengine, dquery, variation, engineLinks, dresult, exceptDiscovery>>

\* Lines 38-82: the request settles and the iteration ends.
VariationSettle(o) ==
    /\ dpc = "awaitVariation"
    /\ LET after == AfterVariation(dengine, engineLinks, o)
       IN  IF after.k = "next"
           THEN /\ engineLinks' = after.links
                /\ variation' = variation + 1
                /\ dpc' = "loop"
                /\ UNCHANGED dresult
           ELSE /\ dpc' = "returned" /\ dresult' = <<>>
                /\ UNCHANGED <<engineLinks, variation>>
    /\ vlog' = [vlog EXCEPT ![Len(vlog)].outcome = o]
    /\ UNCHANGED <<dengine, dquery, exceptDiscovery>>

\* The loop is left: the call returns allLinks, or getDuckDuckGoLinks turns
\* to the lite endpoint (duckduckgo.ts:85-98).
LoopExit ==
    /\ dpc = "loop" /\ (variation >= 3 \/ EnoughLinks(engineLinks))
    /\ IF dengine = "duckduckgo" /\ LiteRequested(engineLinks)
       THEN /\ vlog' = Append(vlog, [kind |-> "lite", i |-> variation,
                                held |-> Len(engineLinks), outcome |-> Pending])
            /\ dpc' = "awaitLite"
            /\ UNCHANGED dresult
       ELSE /\ dpc' = "returned" /\ dresult' = engineLinks
            /\ UNCHANGED vlog
    /\ UNCHANGED <<dengine, dquery, variation, engineLinks, exceptDiscovery>>

\* duckduckgo.ts:100-123
LiteSettle(o) ==
    /\ dpc = "awaitLite"
    /\ engineLinks' = AfterLite(engineLinks, o)
    /\ dresult' = AfterLite(engineLinks, o)
    /\ dpc' = "returned"
    /\ vlog' = [vlog EXCEPT ![Len(vlog)].outcome = o]
    /\ UNCHANGED <<dengine, dquery, variation, exceptDiscovery>>

getEngineLinks ==
    \/ DiscoveryStart
    \/ VariationIssue
    \/ \E o \in VariationOutcomes : VariationSettle(o)
    \/ LoopExit
    \/ \E o \in LiteOutcomes : LiteSettle(o)

-----------------------------------------------------------------------------
(* The extraction of one fetched page: scraper.ts:104-120 statement by statement *)

ExtractionIdle ==
    /\ xpc = "idle" /\ xpage = EmptyPage /\ xlink = <<>> /\ xtechnique = 0
    /\ invoked = <<>> /\ xcontent = Null

\* Any page for any link that can be fetched, at any technique. Besides the
\* pages of ScrapePages: a <main> of 300 characters next to one paragraph
\* of 30 characters.
ExtractionInit ==
    /\ xpc = "readability"
    /\ xpage \in ScrapePages
           \cup {[EmptyPage EXCEPT !.selectorTexts = << <<Run("a", 300), Run("\n", 2)>> >>,
                                   !.paragraphs = << <<Run("b", 30)>> >>,
                                   !.bodyText = <<Run("a", 300), Run("b", 30)>>]}
    /\ xlink \in {Link.a, Link.wiki, Link.c}
    /\ xtechnique \in 0..2
    /\ invoked = <<>> /\ xcontent = Null

\* scraper.ts:107-110
ReadabilityStep ==
    /\ xpc = "readability"
    /\ IF xtechnique = 0
       THEN /\ xcontent' = extractWithReadability(xpage, xlink)
            /\ invoked' = Append(invoked, "readability")
       ELSE UNCHANGED <<xcontent, invoked>>
    /\ xpc' = "custom"
    /\ UNCHANGED <<xpage, xlink, xtechnique, exceptExtraction>>

\* scraper.ts:112-115
CustomStep ==
    /\ xpc = "custom"
    /\ xcontent' = WithCustom(xtechnique, xcontent, xpage, xlink)
    /\ invoked' = IF xtechnique = 1 \/ xcontent = Null THEN Append(invoked, "custom")
                  ELSE invoked
    /\ xpc' = "simplified"
    /\ UNCHANGED <<xpage, xlink, xtechnique, exceptExtraction>>

\* scraper.ts:117-120
SimplifiedStep ==
    /\ xpc = "simplified"
    /\ xcontent' = WithSimplified(xtechnique, xcontent, xpage, xlink)
    /\ invoked' = IF xtechnique = 2 \/ xcontent = Null THEN Append(invoked, "simplified")
                  ELSE invoked
    /\ xpc' = "done"
    /\ UNCHANGED <<xpage, xlink, xtechnique, exceptExtraction>>

extractContent ==
    \/ ReadabilityStep
    \/ CustomStep
    \/ SimplifiedStep

-----------------------------------------------------------------------------
(* Specifications *)

InitFetch == FetchInit /\ ScrapeIdle /\ AggIdle /\ HandlerIdle /\ DiscoveryIdle /\ ExtractionIdle
SpecFetch == InitFetch /\ [][fetchWithTimeout]_vars

InitScrape == ScrapeInit /\ FetchIdle /\ AggIdle /\ HandlerIdle /\ DiscoveryIdle /\ ExtractionIdle
SpecScrape == InitScrape /\ [][scrapeSourcesWithTimeout]_vars

\* Every network request settles (weak fairness of the settling of each
\* pipeline's fetch), and every continuation that can run does: the start of
\* the call and the continuation of Promise.all are weakly fair too, written
\* out with their enabling condition ContinuationReady.
NetworkSettles ==
    \E i \in 1..MAX_CONCURRENT, o \in TechniqueOutcomes : TechniqueSettle(i, o)
ContinuationReady ==
    \/ spc = "called"
    \/ spc = "running" /\ \A i \in 1..Len(pipe) : pipe[i].st = "done"
SpecScrapeLive ==
    /\ SpecScrape
    /\ WF_vars(NetworkSettles)
    /\ \/ []<>~ContinuationReady
       \/ []<><<ScrapeStart \/ BatchJoin>>_vars

InitAgg == AggInit /\ FetchIdle /\ ScrapeIdle /\ HandlerIdle /\ DiscoveryIdle /\ ExtractionIdle
SpecAgg == InitAgg /\ [][getSearchEngineLinks]_vars

\* The handler with the components it calls.
InitHandler == HandlerInit /\ FetchIdle /\ ScrapeIdle /\ AggIdle /\ DiscoveryIdle /\ ExtractionIdle
NextHandler == searchHandler \/ getSearchEngineLinks \/ scrapeSourcesWithTimeout
SpecHandler == InitHandler /\ [][NextHandler]_vars

InitDiscovery == DiscoveryInit /\ FetchIdle /\ ScrapeIdle /\ AggIdle /\ HandlerIdle /\ ExtractionIdle
SpecDiscovery == InitDiscovery /\ [][getEngineLinks]_vars

InitExtraction ==
    ExtractionInit /\ FetchIdle /\ ScrapeIdle /\ AggIdle /\ HandlerIdle /\ DiscoveryIdle
SpecExtraction == InitExtraction /\ [][extractContent]_vars

\* The scraper when every site answers 403 to every request: the links are
\* URLs a request can be made for, with and without repetition.
InitForbidden ==
    /\ spc = "called"
    /\ links \in {Take(<<Link.a, Link.wiki, Link.b, Link.edu, Link.c, Link.d>>, n) :
                      n \in 0..MaxLinks}
                 \cup SeqsUpTo({Link.d, Link.b}, MaxShort)
    /\ pendingLinks = <<>> /\ batch = <<>> /\ pipe = <<>>
    /\ results = <<>> /\ fetchCount = [l \in KnownLinks |-> 0] /\ returned = <<>>
    /\ FetchIdle /\ AggIdle /\ HandlerIdle /\ DiscoveryIdle /\ ExtractionIdle
NextForbidden ==
    \/ ScrapeStart
    \/ \E i \in 1..MAX_CONCURRENT :
          TechniqueSettle(i, [GoodResponse(EmptyPage) EXCEPT !.status = 403])
    \/ BatchJoin
SpecForbidden == InitForbidden /\ [][NextForbidden]_vars

\* The scraper on short lists that hold a link whose path has 37 slashes, a
\* login segment and a query string, next to a malformed link and a plain one.
InitDeep ==
    /\ spc = "called"
    /\ links \in SeqsUpTo({Link.a, Link.bad, Link.deep}, MaxShort)
    /\ pendingLinks = <<>> /\ batch = <<>> /\ pipe = <<>>
    /\ results = <<>> /\ fetchCount = [l \in KnownLinks |-> 0] /\ returned = <<>>
    /\ FetchIdle /\ AggIdle /\ HandlerIdle /\ DiscoveryIdle /\ ExtractionIdle
SpecDeep == InitDeep /\ [][scrapeSourcesWithTimeout]_vars

\* The scraper against sites that answer by a fixed plan: what the site of
\* a link answers to the fetch of technique 0, 1 and 2. A page is one <p> of
\* n characters, which the cascade extracts as it is at every technique.
PlanPage(n) == [kind |-> "page", n |-> n]
PlanStatus(st) == [kind |-> "status", status |-> st]
PlanThrown == [kind |-> "thrown"]
SitePlan(l) ==
    CASE l = Link.a -> <<PlanPage(200), PlanPage(200), PlanPage(200)>>
      [] l = Link.b -> <<PlanPage(201), PlanPage(300), PlanPage(300)>>
      [] l = Link.c -> <<PlanPage(199), PlanPage(199), PlanPage(199)>>
      [] l = Link.d -> <<PlanStatus(404), PlanPage(250), PlanPage(300)>>
      [] l = Link.wiki -> <<PlanThrown, PlanStatus(403), PlanPage(201)>>
      [] OTHER -> <<PlanStatus(404), PlanStatus(404), PlanStatus(404)>>
SiteAnswer(l, technique) ==
    LET step == SitePlan(l)[technique + 1]
    IN  CASE step.kind = "page" ->
               GoodResponse([EmptyPage EXCEPT !.paragraphs = << <<Run("a", step.n)>> >>])
          [] step.kind = "status" -> [GoodResponse(EmptyPage) EXCEPT !.status = step.status]
          [] step.kind = "thrown" -> [kind |-> "thrown"]
InitSites ==
    /\ spc = "called"
    /\ links \in {Take(o, n) : n \in 0..MaxLinks,
                                o \in { <<Link.a, Link.b, Link.c, Link.d, Link.wiki, Link.edu>>,
                                        <<Link.edu, Link.wiki, Link.d, Link.c, Link.a, Link.b>>,
                                        <<Link.c, Link.a, Link.edu, Link.b, Link.d, Link.wiki>> }}
    /\ pendingLinks = <<>> /\ batch = <<>> /\ pipe = <<>>
    /\ results = <<>> /\ fetchCount = [l \in KnownLinks |-> 0] /\ returned = <<>>
    /\ FetchIdle /\ AggIdle /\ HandlerIdle /\ DiscoveryIdle /\ ExtractionIdle
NextSites ==
    \/ ScrapeStart
    \/ \E i \in 1..MAX_CONCURRENT :
          /\ spc = "running" /\ i \in 1..Len(pipe) /\ pipe[i].st = "fetching"
          /\ TechniqueSettle(i, SiteAnswer(batch[i], pipe[i].technique))
    \/ BatchJoin
SpecSites == InitSites /\ [][NextSites]_vars

\* The scraper on the lists the handler passes to it for sourceCount = 3: at
\* most 6 links that filterAndCleanLinks lets through unchanged.
InitFiltered ==
    /\ spc = "called"
    /\ links \in {ls \in ScrapeInputs
                          \cup {Take(<<Link.a, Link.wiki, Link.c, Link.d, Link.b>>, n) :
                                   n \in 0..MaxLinks} :
                     Len(ls) <= 6 /\ filterAndCleanLinks(ls) = ls}
    /\ pendingLinks = <<>> /\ batch = <<>> /\ pipe = <<>>
    /\ results = <<>> /\ fetchCount = [l \in KnownLinks |-> 0] /\ returned = <<>>
    /\ FetchIdle /\ AggIdle /\ HandlerIdle /\ DiscoveryIdle /\ ExtractionIdle
SpecFiltered == InitFiltered /\ [][scrapeSourcesWithTimeout]_vars

\* The scraper on lists of up to MaxWide links, two full batches, where
\* every request is answered with an article or with 404.
MaxWide == 8
WideOrders ==
    { <<Link.a, Link.b, Link.c, Link.d, Link.wiki, Link.edu, Link.a, Link.b, Link.c>>,
      <<Link.wiki, Link.bad, Link.a, Link.edu, Link.b, Link.noScheme, Link.c, Link.d,
        Link.a>> }
WideOutcomes ==
    {GoodResponse(Page.article), [GoodResponse(EmptyPage) EXCEPT !.status = 404]}
InitWide ==
    /\ spc = "called"
    /\ links \in {Take(o, n) : n \in 0..MaxWide, o \in WideOrders}
    /\ pendingLinks = <<>> /\ batch = <<>> /\ pipe = <<>>
    /\ results = <<>> /\ fetchCount = [l \in KnownLinks |-> 0] /\ returned = <<>>
    /\ FetchIdle /\ AggIdle /\ HandlerIdle /\ DiscoveryIdle /\ ExtractionIdle
NextWide ==
    \/ ScrapeStart
    \/ \E i \in 1..MAX_CONCURRENT, o \in WideOutcomes : TechniqueSettle(i, o)
    \/ BatchJoin
SpecWide == InitWide /\ [][NextWide]_vars

-----------------------------------------------------------------------------
(* Claims about scrapeSourcesWithTimeout *)

RealCount(rs) == Cardinality({i \in 1..Len(rs) : rs[i] # Null})

\* C1 as stated: every Source the call returns has 1 <= text.length <= 8001
\* and a url that parses as an absolute URL.
C1_SourceTextAndUrlBounds ==
    spc = "returned" =>
        \A i \in 1..Len(returned) :
            /\ TextLen(returned[i].text) >= 1
            /\ TextLen(returned[i].text) <= 8001
            /\ UrlParses(returned[i].url)

\* C2 as stated: with links and no real source, the call returns at least one
\* fallback source and the first has the url of links[0].
C2_FirstFallbackIsFirstLink ==
    (spc = "returned" /\ Len(links) > 0 /\ RealCount(results) = 0) =>
        /\ Len(returned) >= 1
        /\ returned[1].url = links[1]

\* C2 (amended): with links and no real source, the call returns between one
\* and three fallback sources, none of them extracted; the first has the url
\* of the first link that parses among the first three input links, and the
\* url of links[0] when none of the three parses.
C2_FallbackLaw ==
    (spc = "returned" /\ Len(links) > 0 /\ RealCount(results) = 0) =>
        LET parsing == {i \in 1..Min(3, Len(links)) : UrlParses(links[i])}
        IN  /\ Len(returned) >= 1 /\ Len(returned) <= 3
            /\ \A i \in 1..Len(returned) :
                 /\ IsSource(returned[i])
                 /\ \E j \in 1..Min(3, Len(links)) : returned[i].url = links[j]
            /\ returned[1].url =
                 (IF parsing = {} THEN links[1]
                  ELSE links[CHOOSE i \in parsing : \A j \in parsing : i <= j])

\* Nothing was extracted from three or more links, the first of which does not
\* parse, and fallback sources were returned.
C2_Witness ==
    /\ spc = "returned" /\ Len(links) >= 3 /\ RealCount(results) = 0
    /\ Len(results) = Len(links)
    /\ ~UrlParses(links[1])
    /\ Len(returned) >= 1

\* C3: once the results of the completed batches hold 3 or more non-null
\* entries, no link of a later batch has been fetched.
C3_EarlyExit ==
    LET prioritized == prioritizeLinks(links)
    IN  \A k \in 1..Len(results) :
          (k % 4 = 0 /\ RealCount(SubSeq(results, 1, k)) >= 3) =>
              \A j \in (k + 1)..Len(prioritized) : fetchCount[prioritized[j]] = 0

\* The first batch of a list of five links brought three results and the
\* call returned without fetching the fifth.
C3_Witness ==
    /\ spc = "returned" /\ Len(links) = 5 /\ Len(results) = 4
    /\ RealCount(results) >= 3
    /\ fetchCount[prioritizeLinks(links)[5]] = 0
    /\ SumSeq([i \in 1..4 |-> fetchCount[prioritizeLinks(links)[i]]]) >= 4

\* C5: the call never rejects: no pipeline rejects, and the call resolves
\* with a list of Sources.
C5_NeverRejects ==
    /\ spc # "rejected"
    /\ \A i \in 1..Len(pipe) : pipe[i].st # "rejected"
    /\ spc = "returned" => \A i \in 1..Len(returned) : IsSource(returned[i])

\* All three techniques threw for a malformed link, another link was
\* extracted, and the call resolved.
C5_Witness ==
    /\ spc = "returned"
    /\ fetchCount[Link.bad] = 3
    /\ RealCount(results) >= 1
    /\ Len(returned) >= 1

-----------------------------------------------------------------------------
(* Claims about fetchWithTimeout *)

\* C9 as stated: at most 3 network requests; the request of attempt k has
\* timeoutBase*(k+1) ms before it is aborted; attempt k >= 1 is preceded by a
\* sleep of RETRY_DELAY*2^(k-1) ms.
C9_RequestGetsFullTimeout ==
    /\ Len(reqLog) <= 3
    /\ \A i \in 1..Len(reqLog) :
          /\ reqLog[i].attempt = i - 1
          /\ reqLog[i].budget = timeout * i
          /\ reqLog[i].sleeps = i - 1
    /\ \A j \in 1..Len(sleepLog) :
          sleepLog[j].attempt = j /\ sleepLog[j].ms = RETRY_DELAY * Pow2(j - 1)

\* C9 (amended): at most 3 network requests; attempt k arms an abort timer of
\* timeoutBase*(k+1) ms at its start, before the backoff sleep, so the request
\* of attempt k has timeoutBase*(k+1) ms less the sleep of that attempt; before
\* the request of each attempt k >= 1 the client sleeps 1000 ms (k = 1) and
\* 2000 ms (k = 2), after the request of attempt k-1.
C9_AttemptsTimeoutsBackoff ==
    /\ Len(reqLog) <= 3
    /\ Len(sleepLog) <= 2
    /\ \A i \in 1..Len(reqLog) :
          /\ reqLog[i].attempt = i - 1
          /\ reqLog[i].timeoutMs = timeout * i
          /\ reqLog[i].sleeps = i - 1
          /\ reqLog[i].budget =
                timeout * i - (IF i = 1 THEN 0 ELSE sleepLog[i - 1].ms)
    /\ \A j \in 1..Len(sleepLog) :
          /\ sleepLog[j].attempt = j
          /\ sleepLog[j].requests = j
          /\ sleepLog[j].ms = (IF j = 1 THEN 1000 ELSE 2000)

\* All three attempts were made, the second and third after a sleep.
C9_Witness == Len(reqLog) = 3 /\ Len(sleepLog) = 2 /\ fpc = "thrown"

\* An outcome after which the loop goes round again.
Retryable(o) ==
    \/ o.kind = "response" /\ (o.status = 429 \/ o.status >= 500)
    \/ o.kind = "error" /\ o.name # "AbortError" /\ ~o.cors

\* C10: after the request of attempt k settled, the call is on its way to
\* another request exactly when k < 2 and the outcome was 429, >= 500 or a
\* network error that is neither an abort nor a CORS error; an abort or a
\* CORS error is thrown at once and is the last request.
C10_RetryExactlyWhen ==
    \A i \in 1..Len(reqLog) :
        LET o == reqLog[i].outcome
            last == i = Len(reqLog)
            goesOn == ~last \/ (fpc \in {"head", "sleep", "fetch"} /\ attempt < MAX_RETRIES)
        IN  o # Pending =>
              /\ goesOn <=> (i < 3 /\ Retryable(o))
              /\ (o.kind = "error" /\ (o.name = "AbortError" \/ o.cors))
                    => (last /\ fpc = "thrown" /\ fresult = o)

\* A 429 on the first attempt was followed by a second request, and a CORS
\* error ended the call on the spot.
C10_Witness ==
    /\ Len(reqLog) = 2
    /\ reqLog[1].outcome = [kind |-> "response", status |-> 429]
    /\ reqLog[2].outcome = [kind |-> "error", name |-> "TypeError", cors |-> TRUE]
    /\ fpc = "thrown"

-----------------------------------------------------------------------------
(* Claims about getSearchEngineLinks *)

\* The positions of the merged list whose link is a first occurrence, parses,
\* and has neither a deny-listed host nor a denied path fragment.
Survivors(merged) ==
    {i \in 1..Len(merged) :
        /\ \A j \in 1..(i - 1) : merged[j] # merged[i]
        /\ UrlParses(merged[i])
        /\ \A d \in invalidDomains : ~Includes(Hostname(merged[i]), d)
        /\ \A p \in invalidPatterns : ~Includes(Pathname(merged[i]), p)}

\* C6: in every engine mode, the link list getSearchEngineLinks returns holds
\* no URL twice, no link whose host includes a deny-listed domain and no link
\* whose path includes a denied path fragment.
C6_NoDuplicateNoDenied ==
    apc = "returned" =>
        LET ls == aggResult.links
        IN  /\ \A i, j \in 1..Len(ls) : ls[i] = ls[j] => i = j
            /\ \A i \in 1..Len(ls) :
                 /\ \A d \in invalidDomains : ~Includes(Hostname(ls[i]), d)
                 /\ \A p \in invalidPatterns : ~Includes(Pathname(ls[i]), p)

\* The engines found the same link twice, a link on a deny-listed host and a
\* link with a denied path, and the call returned some links.
C6_Witness ==
    /\ apc = "returned"
    /\ \E i, j \in 1..Len(allLinks) : i # j /\ allLinks[i] = allLinks[j]
    /\ \E i \in 1..Len(allLinks) : allLinks[i] = SpecialLinks[4]
    /\ \E i \in 1..Len(allLinks) : allLinks[i] = SpecialLinks[2]
    /\ Len(aggResult.links) > 0

\* C7: the link list getSearchEngineLinks returns never has more than 20
\* entries, and it is the first (at most 20) surviving links of the merged
\* list, in merge order.
C7_CappedFirstSurvivors ==
    apc = "returned" =>
        LET ls == aggResult.links
            keep == Survivors(allLinks)
        IN  /\ Len(ls) <= 20
            /\ Len(ls) = Min(20, Cardinality(keep))
            /\ \A k \in 1..Len(ls) :
                 \E i \in keep : /\ Cardinality({j \in keep : j <= i}) = k
                                 /\ ls[k] = allLinks[i]

\* More than 20 links of the merged list survive, and 20 are returned.
C7_Witness ==
    /\ apc = "returned"
    /\ Cardinality(Survivors(allLinks)) > 20
    /\ Len(aggResult.links) = 20

-----------------------------------------------------------------------------
(* Claims about searchHandler *)

\* The sources the scraper hands to sortSourcesByQuality (scraper.ts:162-165).
ValidSources == SelectSeq(results, LAMBDA r : r # Null)

\* A POST request whose body carries a non-empty string as its query.
ValidRequest(r) ==
    /\ r.method = "POST"
    /\ r.body.type = "object"
    /\ r.body.query.type = "string"
    /\ r.body.query.value # <<>>

NoCallMade ==
    /\ \A e \in EngineNames : engineCalls[e] = 0
    /\ \A l \in KnownLinks : fetchCount[l] = 0
    /\ apc = "idle" /\ spc = "idle"

\* No link the engines found is one the handler goes on with.
NoUsableLink ==
    IF variant = "modular"
    THEN Survivors(allLinks) = {}
    ELSE \A i \in 1..Len(allLinks) :
            \/ ~UrlParses(allLinks[i])
            \/ \E excluded \in EXCLUDED_DOMAINS : Includes(Hostname(allLinks[i]), <<excluded>>)

\* C4, as the claim states it: the response to a POST request with a valid
\* query holds at least one source unless an exception was caught; a response
\* with no source is the answer to a malformed request or to an exception.
C4_AlwaysSomeSource ==
    (hpc = "responded" /\ Len(response.sources) = 0)
        => (~ValidRequest(req) \/ response.status = 500)

\* C4, as the code has it: the response to a POST request with a valid query
\* is, unless an exception was caught, a 200 that holds at least one source
\* exactly when the discovery left at least one link after filtering; with
\* no link left it is a 200 with no source.
C4_SomeSourceUnlessNoLinks ==
    (hpc = "responded" /\ ValidRequest(req) /\ response.status # 500)
        => /\ response.status = 200
           /\ Len(response.sources) = 0 <=> NoUsableLink

\* The scraper was called and the handler answered with its own fallback source.
C4_Witness ==
    /\ hpc = "responded" /\ ValidRequest(req)
    /\ spc = "returned"
    /\ Len(response.sources) = 1
    /\ response.metadata.fallback

\* C8: a request whose method is not POST, or whose query is missing, empty
\* or not a string, is answered 405 (method) or 400 (query) with an empty
\* source list, and no discovery or scrape call is made for it.
C8_InvalidRejectedWithoutCalls ==
    (hpc = "responded" /\ ~ValidRequest(req))
        => /\ response.status = (IF req.method # "POST" THEN 405 ELSE 400)
           /\ response.sources = <<>>
           /\ NoCallMade

\* What holds of every request that is not valid: an empty source list and
\* no call; and 405 or 400 unless the body is null, which is answered 500.
C8_InvalidNeverCalls ==
    (hpc = "responded" /\ ~ValidRequest(req))
        => /\ response.status = (IF req.method # "POST" THEN 405
                                 ELSE IF req.body = NullBody THEN 500 ELSE 400)
           /\ response.sources = <<>>
           /\ NoCallMade

\* A POST request with a null body was answered.
C8_Witness == hpc = "responded" /\ req.method = "POST" /\ req.body = NullBody

\* C25 as stated: once the handler has the discovered links, the links it
\* goes on with are those of a request whose sourceCount is the clamped one
\* (below 1 taken as 1, above 8 as 8, absent as 4), and a 200 response holds
\* no more sources than the clamped count.
C25_SourceCountClamped ==
    LET clamped == LimitedSourceCount(SourceCountOf(req.body))
    IN  /\ hpc = "scraping" =>
              finalLinks = IF variant = "modular"
                           THEN Slice0(aggResult.links, Min(Len(aggResult.links), clamped * 2))
                           ELSE Slice0(filterAndDeduplicateLinks(allLinks), clamped)
        /\ (hpc = "responded" /\ response.status = 200) =>
              Len(response.sources) <= clamped

\* C26 as stated: a 200 response with sources has metadata.fallback true
\* exactly when its sources are synthesized, that is when the scraper
\* extracted no link and returned its fallback sources, or when the handler
\* was left with no processed source and answered with its own.
C26_FallbackFlagged ==
    (hpc = "responded" /\ response.status = 200 /\ response.sources # <<>>) =>
        (response.metadata.fallback <=> (ValidSources = <<>> \/ ProcessedSources = <<>>))

-----------------------------------------------------------------------------
(* Further claims about fetchWithTimeout *)

\* C11: a request that settled with a non-OK response whose status is neither
\* 429 nor >= 500 (403, 404) is the last request of the call, made no later
\* than that attempt, and the call resolved with that very response: nothing
\* is thrown.
C11_NonRetryableResponseReturned ==
    \A i \in 1..Len(reqLog) :
        LET o == reqLog[i].outcome
        IN  (o.kind = "response" /\ ~(o.status >= 200 /\ o.status <= 299)
                /\ o.status # 429 /\ o.status < 500) =>
              /\ i = Len(reqLog)
              /\ fpc = "returned"
              /\ fresult = o
              /\ attempt = i - 1

\* A 404 on the second attempt, after a retried 503, was returned.
C11_Witness ==
    /\ Len(reqLog) = 2
    /\ reqLog[1].outcome = [kind |-> "response", status |-> 503]
    /\ reqLog[2].outcome = [kind |-> "response", status |-> 404]
    /\ fpc = "returned" /\ fresult.status = 404

\* C12: when three requests were made and the call has ended without a
\* response, what it threw is the error of the third attempt: the HTTP-status
\* error of its 429/5xx response, or the error the request failed with.
C12_ThrowsLastError ==
    (Len(reqLog) = 3 /\ fpc = "thrown") =>
        LET o == reqLog[3].outcome
        IN  /\ fresult.kind = "error"
            /\ IF o.kind = "response"
               THEN /\ (o.status = 429 \/ o.status >= 500)
                    /\ fresult.name = "Error" /\ fresult.status = o.status
               ELSE fresult = o

\* Three failed attempts whose errors all differ: 500, a network error, 429.
C12_Witness ==
    /\ Len(reqLog) = 3 /\ fpc = "thrown"
    /\ reqLog[1].outcome = [kind |-> "response", status |-> 500]
    /\ reqLog[2].outcome = [kind |-> "error", name |-> "TypeError", cors |-> FALSE]
    /\ reqLog[3].outcome = [kind |-> "response", status |-> 429]
    /\ fresult.status = 429

\* C27 as stated: a call that ended by throwing after a timeout, a 5xx or a
\* 429 made all 3 requests.
C27_TransientSurfacedOnlyWhenExhausted ==
    (fpc = "thrown" /\ reqLog # <<>>) =>
        LET o == reqLog[Len(reqLog)].outcome
        IN  (\/ o.kind = "error" /\ o.name = "AbortError"
             \/ o.kind = "response" /\ (o.status = 429 \/ o.status >= 500))
                => Len(reqLog) = MAX_RETRIES

\* C27, as the code has it: a request answered 429 or 5xx is followed, while
\* attempts are left, by the backoff sleep of the next attempt and then by
\* another request, and its error is thrown only when it was the third
\* request; a request that timed out (AbortError) is the last request of the
\* call at whichever attempt, and its error is thrown at once.
C27_StatusRetriedTimeoutThrown ==
    \A i \in 1..Len(reqLog) :
        LET o == reqLog[i].outcome
            last == i = Len(reqLog)
        IN  /\ (o.kind = "response" /\ (o.status = 429 \/ o.status >= 500)) =>
                  /\ (last /\ fpc = "thrown") => i = MAX_RETRIES
                  /\ (last /\ i < MAX_RETRIES) => fpc \in {"head", "sleep", "fetch"}
                  /\ ~last => /\ reqLog[i + 1].sleeps = i
                              /\ sleepLog[i].ms = RETRY_DELAY * Pow2(i - 1)
                              /\ sleepLog[i].requests = i
            /\ (o.kind = "error" /\ o.name = "AbortError") =>
                  last /\ fpc = "thrown" /\ fresult = o

\* The first request timed out and the call threw without another request.
C27_Witness ==
    /\ Len(reqLog) = 1 /\ fpc = "thrown"
    /\ reqLog[1].outcome = [kind |-> "error", name |-> "AbortError", cors |-> FALSE]
    /\ sleepLog = <<>>

\* C36: a call that resolved did so with a response whose status is neither
\* 429 nor >= 500; a call all of whose requests were answered 429 has not
\* resolved, and once three requests were answered 429 it has thrown the
\* error of the last 429.
C36_NeverResolvesWithRetryStatus ==
    /\ fpc \in {"head", "sleep", "fetch", "inflight", "returned", "thrown"}
    /\ fpc = "returned" =>
          /\ fresult.kind = "response"
          /\ fresult.status # 429 /\ fresult.status < 500
    /\ (\A i \in 1..Len(reqLog) : reqLog[i].outcome \in {Pending, [kind |-> "response", status |-> 429]})
          => /\ fpc # "returned"
             /\ fpc = "thrown" =>
                   /\ Len(reqLog) = MAX_RETRIES
                   /\ fresult.kind = "error" /\ fresult.status = 429

\* Three requests, each answered 429: the call threw.
C36_Witness ==
    /\ Len(reqLog) = 3 /\ fpc = "thrown"
    /\ \A i \in 1..3 : reqLog[i].outcome = [kind |-> "response", status |-> 429]
    /\ fresult.status = 429

-----------------------------------------------------------------------------
(* Claims about getGoogleLinks, getBingLinks, getDuckDuckGoLinks *)

\* The requests of the log that are query variations.
VariationRequests == {k \in 1..Len(vlog) : vlog[k].kind = "variation"}
LiteRequests == {k \in 1..Len(vlog) : vlog[k].kind = "lite"}

\* A variation whose page was parsed.
Parsed(e, o) ==
    /\ o.kind = "response" /\ o.status = 200 /\ ~o.textThrows /\ o.htmlLength >= 1000
    /\ ~(e = "google" /\ o.marker)

\* C13: a discovery ends by resolving with a list of links, whatever its
\* variations met (a thrown fetch, a body that cannot be read, a non-OK or
\* short or blocked page); when the search URLs could be built, a variation
\* that failed did not end the loop (all three variations were requested
\* unless 15 links were held) and the list returned holds every link of
\* every page that was parsed.
C13_DiscoveryNeverRejects ==
    /\ dpc \in {"idle", "called", "loop", "awaitVariation", "awaitLite", "returned"}
    /\ dpc = "returned" =>
          /\ dresult # Null
          /\ DOMAIN dresult = 1..Len(dresult)
          /\ Encodable(dquery) =>
                /\ Cardinality(VariationRequests) = 3 \/ Len(dresult) >= 15
                /\ \A k \in VariationRequests :
                      Parsed(dengine, vlog[k].outcome) =>
                          \A j \in 1..Len(vlog[k].outcome.extracted) :
                              \E m \in 1..Len(dresult) :
                                  dresult[m] = vlog[k].outcome.extracted[j]

\* The first variation threw, the body of the second could not be read, the
\* third was parsed: its seven links are the result.
C13_Witness ==
    /\ dpc = "returned" /\ Len(vlog) = 3
    /\ vlog[1].outcome.kind = "thrown"
    /\ vlog[2].outcome.kind = "response" /\ vlog[2].outcome.textThrows
    /\ Parsed(dengine, vlog[3].outcome)
    /\ dresult = SiteLinks(1, 7)

\* C14: the request of variation i is the (i+1)-th request of the call, it
\* goes out only when every earlier request has settled, and only while
\* fewer than 15 links are held.
C14_SequentialUntilFifteen ==
    \A k \in VariationRequests :
        /\ vlog[k].i = k - 1
        /\ vlog[k].held < 15
        /\ \A j \in 1..(k - 1) : vlog[j].outcome # Pending

\* Two variations brought 7 and 8 links: the third was not requested.
C14_Witness ==
    /\ dpc = "returned" /\ dengine = "bing"
    /\ Cardinality(VariationRequests) = 2
    /\ vlog[1].held = 0 /\ vlog[2].held = 7
    /\ Len(dresult) = 15

\* The links the variations of the call accumulated, once it has returned.
Accumulated ==
    IF LiteRequests # {} THEN vlog[CHOOSE k \in LiteRequests : TRUE].held ELSE Len(dresult)

\* C15 as stated: a getDuckDuckGoLinks call that has returned requested the
\* lite endpoint exactly when its variations accumulated no link; the lite
\* request came after the three variations had settled, and the call
\* resolved with a list whatever the lite request met.
C15_LiteIffNoLinks ==
    (dengine = "duckduckgo" /\ dpc = "returned") =>
        /\ LiteRequests # {} <=> Accumulated = 0
        /\ \A k \in LiteRequests :
              /\ k = Len(vlog) /\ k = 4
              /\ \A j \in 1..(k - 1) : vlog[j].kind = "variation" /\ vlog[j].outcome # Pending
        /\ dresult # Null

\* C15 (amended): when the query can be URL-encoded, a getDuckDuckGoLinks
\* call that has returned requested the lite endpoint exactly when its
\* variations accumulated no link, after the three variations had settled,
\* and resolved with a list whatever the lite request met (the empty list
\* when it failed); when the query cannot be encoded no request at all is
\* made and the call resolves with the empty list; the other two engines
\* never request the lite endpoint.
C15_LiteIffNoLinksWhenEncodable ==
    dpc = "returned" =>
        /\ dresult # Null
        /\ dengine # "duckduckgo" => LiteRequests = {}
        /\ ~Encodable(dquery) => vlog = <<>> /\ dresult = <<>>
        /\ (dengine = "duckduckgo" /\ Encodable(dquery)) =>
              /\ LiteRequests # {} <=> Accumulated = 0
              /\ \A k \in LiteRequests :
                    /\ k = Len(vlog) /\ k = 4
                    /\ \A j \in 1..(k - 1) :
                          vlog[j].kind = "variation" /\ vlog[j].outcome # Pending
                    /\ (vlog[k].outcome.kind = "thrown" => dresult = <<>>)

\* Three variations without a link, then a lite request that threw.
C15_Witness ==
    /\ dengine = "duckduckgo" /\ dpc = "returned"
    /\ Len(vlog) = 4 /\ vlog[4].kind = "lite" /\ vlog[4].outcome.kind = "thrown"
    /\ dresult = <<>>

-----------------------------------------------------------------------------
(* Further claims about getSearchEngineLinks *)

\* C16: when a call in mode all has returned, usedEngines lists an engine
\* exactly when the call to that engine resolved with at least one link, each
\* at most once; an engine that rejected or resolved with no link is absent.
C16_UsedIffReturnedLinks ==
    (apc = "returned" /\ searchEngine = "all") =>
        /\ \A e \in EngineNames :
              (\E k \in 1..Len(usedEngines) : usedEngines[k] = e)
                  <=> (engine[e].st = "resolved" /\ Len(engine[e].links) > 0)
        /\ \A k \in 1..Len(usedEngines) : usedEngines[k] \in EngineNames
        /\ \A j, k \in 1..Len(usedEngines) : usedEngines[j] = usedEngines[k] => j = k

\* Google brought links, Bing an empty list, DuckDuckGo failed.
C16_Witness ==
    /\ apc = "returned" /\ searchEngine = "all"
    /\ engine["google"].st = "resolved" /\ Len(engine["google"].links) > 0
    /\ engine["bing"] = [st |-> "resolved", links |-> <<>>]
    /\ engine["duckduckgo"].st = "rejected"
    /\ usedEngines = <<"google">>

\* The links of a settled engine call that succeeded.
LinksOrNone(e) == IF engine[e].st = "resolved" THEN engine[e].links ELSE <<>>

\* C17: in mode all each engine is called once, all three calls are pending
\* together, and nothing is returned while a call is pending, whichever calls
\* have failed meanwhile; the merged list is the lists of the engines that
\* succeeded, in the order google, bing, duckduckgo.
C17_AllSettleAndMerge ==
    searchEngine = "all" =>
        /\ apc \in {"awaitAll", "returned"} => \A e \in EngineNames : engineCalls[e] = 1
        /\ apc = "awaitAll" =>
              /\ aggResult = Null /\ allLinks = <<>>
              /\ \A e \in EngineNames : engine[e].st \in {"pending", "resolved", "rejected"}
        /\ apc = "returned" =>
              /\ \A e \in EngineNames : engine[e].st \in {"resolved", "rejected"}
              /\ allLinks = LinksOrNone("google") \o LinksOrNone("bing")
                                \o LinksOrNone("duckduckgo")

\* Bing failed while the two others were pending; their links are merged.
C17_Witness ==
    /\ apc = "returned" /\ searchEngine = "all"
    /\ engine["bing"].st = "rejected"
    /\ engine["google"].st = "resolved" /\ engine["duckduckgo"].st = "resolved"
    /\ Len(engine["google"].links) = 3 /\ Len(engine["duckduckgo"].links) = 2
    /\ Len(allLinks) = 5

\* The engine the switch of index.ts:53-69 runs, and the calls made in all.
Ran == IF searchEngine \in {"bing", "duckduckgo"} THEN searchEngine ELSE "google"
Calls == engineCalls["google"] + engineCalls["bing"] + engineCalls["duckduckgo"]

C33_BadVariationContributesNothing ==
    \A k \in VariationRequests :
        LET o == vlog[k].outcome
            heldAfter == IF k < Len(vlog) THEN vlog[k + 1].held ELSE Len(engineLinks)
        IN  (/\ o.kind = "response" /\ ~o.textThrows
             /\ (~ResponseOk(o.status) \/ o.htmlLength < 1000 \/ o.marker))
                => /\ heldAfter = vlog[k].held
                   /\ (k = Len(vlog) /\ dpc = "loop") => variation = vlog[k].i + 1

-----------------------------------------------------------------------------
(* Claims about the extraction of a fetched page *)

\* What each extraction function returns for the page at hand.
StrategyResult(name) ==
    CASE name = "readability" -> extractWithReadability(xpage, xlink)
      [] name = "custom" -> extractWithCustomSelectors(xpage, xlink)
      [] name = "simplified" -> extractWithSimplifiedMethod(xpage, xlink)

\* Neither null nor insufficient text.
Sufficient(c) == c # Null /\ TextLen(c.text) > 200

\* C19 as stated: at every technique, once the three ifs have run, the
\* functions called are an initial part of readability, custom selectors,
\* simplified, each one after the first called only when the preceding one
\* returned null or insufficient text, and extractedContent is the result of
\* the first of the three that succeeds on the page (no usable content when
\* none does).
C19_FirstSuccessfulStrategyWins ==
    xpc = "done" =>
        LET order == <<"readability", "custom", "simplified">>
            wins == {k \in 1..3 : Sufficient(StrategyResult(order[k]))}
        IN  /\ Len(invoked) >= 1
            /\ \A k \in 1..Len(invoked) : invoked[k] = order[k]
            /\ \A k \in 2..Len(invoked) : ~Sufficient(StrategyResult(order[k - 1]))
            /\ IF wins = {} THEN ~Sufficient(xcontent)
               ELSE xcontent = StrategyResult(order[CHOOSE k \in wins : \A j \in wins : k <= j])

\* C24 as stated: once the three ifs have run on a page and a link, the
\* extracted content is the one a run on the same page and link gives at
\* each of the techniques 0, 1 and 2.
C24_SameContentAtEveryTechnique ==
    xpc = "done" =>
        \A t \in 0..2 : ExtractedContent(xpage, xlink, t) = xcontent

-----------------------------------------------------------------------------
(* Further claims about scrapeSourcesWithTimeout *)

\* C20: a batch holds at most 4 links and only the pipelines of the batch at
\* hand are in flight; while a batch runs, no link still pending has been
\* fetched, however many pipelines of the batch have already brought a
\* source, and the results hold exactly the outcomes of the earlier batches;
\* when the call returns, every pipeline that was started has been awaited.
C20_BatchesOfFourNoOverlap ==
    /\ Len(batch) <= 4 /\ Len(pipe) = Len(batch)
    /\ Cardinality({i \in 1..Len(pipe) : pipe[i].st = "fetching"}) <= 4
    /\ spc = "running" =>
          /\ Len(results) = Len(links) - Len(pendingLinks) - Len(batch)
          /\ \A k \in 1..Len(pendingLinks) :
                (\A j \in 1..Len(links) :
                    links[j] = pendingLinks[k] =>
                        Cardinality({m \in 1..Len(links) : links[m] = links[j]}) = 1)
                    => fetchCount[pendingLinks[k]] = 0
    /\ spc = "returned" =>
          /\ Len(results) = Len(links) - Len(pendingLinks)
          /\ \A i \in 1..Len(results) : results[i] = Null \/ IsSource(results[i])

\* Three pipelines of the first batch have brought a source, the fourth is
\* still fetching, and the fifth link waits unfetched.
C20_Witness ==
    /\ spc = "running" /\ Len(batch) = 4 /\ Len(pendingLinks) = 1
    /\ Cardinality({i \in 1..4 : pipe[i].st = "done" /\ pipe[i].result # Null}) = 3
    /\ Cardinality({i \in 1..4 : pipe[i].st = "fetching"}) = 1
    /\ fetchCount[pendingLinks[1]] = 0
    /\ results = <<>>

\* C21: when every fetch is answered with 403, the call returns after every
\* link was fetched (three times, once per technique), with no real source
\* in results, and what it returns is min(3, number of links) fallback
\* sources: the i-th has the url of the i-th link and a title and a text
\* naming that link's host (without a leading "www.").
C21_AllForbiddenGivesFallbacks ==
    spc = "returned" =>
        /\ Len(results) = Len(links)
        /\ \A i \in 1..Len(results) : results[i] = Null
        /\ \A i \in 1..Len(links) :
              fetchCount[links[i]] = 3 * Cardinality({j \in 1..Len(links) : links[j] = links[i]})
        /\ Len(returned) = (IF Len(links) < 3 THEN Len(links) ELSE 3)
        /\ \A i \in 1..Len(returned) :
              LET h == Hostname(links[i])
                  domain == IF h[1] = "www" THEN SubSeq(h, 3, Len(h)) ELSE h
              IN  /\ returned[i].url = links[i]
                  /\ returned[i].title = <<"Information from ">> \o domain
                  /\ TextLen(returned[i].text) = 156 + Len(domain)

\* Five links in two batches, all answered with 403: three fallback sources.
C21_Witness ==
    /\ spc = "returned" /\ Len(links) = 5
    /\ \A i \in 1..5 : fetchCount[links[i]] = 3
    /\ Len(returned) = 3
    /\ returned[3].title = <<"Information from ", "b", ".", "com">>

\* C22 as stated, for the scraper on the (at most 6, filtered) links the
\* handler passes for sourceCount = 3: it returns at most 3 sources, and
\* the text of each is not empty.
C22_AtMostThreeNonEmpty ==
    spc = "returned" =>
        /\ Len(returned) <= 3
        /\ \A i \in 1..Len(returned) : TextLen(returned[i].text) > 0

\* C23: where the scraper returns sorted sources, the list returned has the
\* sources of the input, each as often as the input has it, in non-increasing
\* order of quality score; sources of equal score keep their input order;
\* the input (results) still holds the outcomes in batch order; sorting the
\* output again changes nothing.
C23_StableDescendingSort ==
    (spc = "returned" /\ ValidSources # <<>>) =>
        LET scoreOf(src) == calculateContentQualityScore(src)
        IN  /\ Len(returned) = Len(ValidSources)
            /\ \A i \in 1..Len(returned) :
                  Len(SelectSeq(returned, LAMBDA x : x = returned[i]))
                      = Len(SelectSeq(ValidSources, LAMBDA x : x = returned[i]))
            /\ \A i, j \in 1..Len(returned) :
                  i < j => scoreOf(returned[i]) >= scoreOf(returned[j])
            /\ \A i \in 1..Len(returned) :
                  SelectSeq(returned, LAMBDA x : scoreOf(x) = scoreOf(returned[i]))
                      = SelectSeq(ValidSources, LAMBDA x : scoreOf(x) = scoreOf(returned[i]))
            /\ Len(results) = Len(links) - Len(pendingLinks)
            /\ sortSourcesByQuality(returned) = returned

\* The input held a source before one of higher score, and two different
\* sources of equal score.
C23_Witness ==
    /\ spc = "returned" /\ Len(ValidSources) >= 3
    /\ \E i, j \in 1..Len(ValidSources) :
          /\ i < j
          /\ calculateContentQualityScore(ValidSources[i])
                < calculateContentQualityScore(ValidSources[j])
    /\ \E i, j \in 1..Len(ValidSources) :
          /\ i < j /\ ValidSources[i] # ValidSources[j]
          /\ calculateContentQualityScore(ValidSources[i])
                = calculateContentQualityScore(ValidSources[j])
    /\ returned # ValidSources

-----------------------------------------------------------------------------
(* Claims about the technique loop of one link *)

\* The techniques at which the site of link l serves a page whose text has
\* more than min characters.
TechniquesOver(l, min) ==
    {t \in 0..2 : SitePlan(l)[t + 1].kind = "page" /\ SitePlan(l)[t + 1].n > min}

\* What holds of the pipelines when the first technique whose text has more
\* than min characters wins: a pipeline fetching at technique t has made
\* t + 1 fetches and no earlier technique had such a text; a link whose
\* pipeline has ended has a source exactly when some technique has such a
\* text, the source holds the text of the first such technique, and the link
\* was fetched once for every technique up to that one (three times with no
\* source); a link still pending was not fetched.
FirstTechniqueOverWins(min) ==
    LET prioritized == prioritizeLinks(links)
        first(l) == CHOOSE t \in TechniquesOver(l, min) :
                        \A u \in TechniquesOver(l, min) : t <= u
        ended(l, r) ==
            IF TechniquesOver(l, min) = {}
            THEN r = Null /\ fetchCount[l] = 3
            ELSE /\ r # Null
                 /\ r.url = l
                 /\ TextLen(r.text) = SitePlan(l)[first(l) + 1].n
                 /\ fetchCount[l] = first(l) + 1
    IN  spc \in {"running", "returned"} =>
          /\ \A i \in 1..Len(results) : ended(prioritized[i], results[i])
          /\ \A i \in 1..Len(pipe) :
                IF pipe[i].st = "fetching"
                THEN /\ fetchCount[batch[i]] = pipe[i].technique + 1
                     /\ \A t \in TechniquesOver(batch[i], min) : t >= pipe[i].technique
                ELSE ended(batch[i], pipe[i].result)
          /\ \A i \in 1..Len(pendingLinks) : fetchCount[pendingLinks[i]] = 0

\* C28 as stated: the first technique whose text has at least 200 characters
\* wins, so a text of exactly 200 characters gives a source.
C28_FirstTechniqueWithAtLeast200Wins == FirstTechniqueOverWins(199)

\* C28, as the code has it: the techniques 0, 1, 2 are tried in order, each
\* only after the ones before it failed, and the first technique whose text
\* has more than 200 characters wins; a text of exactly 200 characters gives
\* no source, no more than a shorter one.
C28_FirstTechniqueOver200Wins == FirstTechniqueOverWins(200)

\* A link that serves 200 characters at every technique ended without a
\* source after three fetches, next to a link whose second technique won.
C28_Witness ==
    /\ spc = "returned"
    /\ \E i \in 1..Len(results) :
          /\ prioritizeLinks(links)[i] = Link.a
          /\ results[i] = Null /\ fetchCount[Link.a] = 3
    /\ \E i \in 1..Len(results) :
          /\ prioritizeLinks(links)[i] = Link.d
          /\ results[i] # Null /\ TextLen(results[i].text) = 250
          /\ fetchCount[Link.d] = 2

-----------------------------------------------------------------------------
(* Claims about the order of the fetches *)

\* C29: while the scraper runs and when it has returned, a batch holds at
\* most 4 links, and the priority score of every link fetched so far is at
\* least the score of every link still pending; the links of the earlier
\* batches (fetched, and not in the batch at hand) score at least as high
\* as every link of the batch at hand.
C29_HigherScoreNeverLater ==
    spc \in {"running", "returned"} =>
        LET fetched == {l \in KnownLinks : fetchCount[l] > 0}
            atHand == {batch[i] : i \in 1..Len(batch)}
        IN  /\ Len(batch) <= MAX_CONCURRENT
            /\ \A l \in fetched : \A j \in 1..Len(pendingLinks) :
                  LinkScore(l) >= LinkScore(pendingLinks[j])
            /\ \A e \in fetched \ atHand : \A l \in atHand :
                  LinkScore(e) >= LinkScore(l)

\* The second batch runs: it holds a link that was not the last of the input,
\* while the last link of the input, of a higher score, was fetched in the
\* first batch.
C29_Witness ==
    /\ spc = "running" /\ Len(results) = MAX_CONCURRENT /\ Len(batch) = 1
    /\ Len(links) = 5
    /\ \E k \in 1..4 : links[k] = batch[1]
    /\ links[5] # batch[1]
    /\ fetchCount[links[5]] > 0
    /\ LinkScore(links[5]) > LinkScore(batch[1])

\* The score the claim gives a well-formed link: 30 for a reputable host,
\* less 2 for every path segment, less 5 for a query string, less 20 for a
\* login, signup or account segment.
ScoreBySegments(link) ==
    (IF \E h \in { <<".", "edu">>, <<".", "gov">>, <<"wikipedia", ".", "org">>,
                   <<"github", ".", "com">>, <<"stackoverflow", ".", "com">>,
                   <<"medium", ".", "com">> } : Includes(Hostname(link), h)
     THEN 30 ELSE 0)
    - 2 * Len(PathParts(link))
    - (IF Len(Search(link)) > 0 THEN 5 ELSE 0)
    - (IF \E k \in 1..Len(PathParts(link)) :
             \E w \in {"login", "signup", "account"} : Includes(PathParts(link)[k], <<w>>)
       THEN 20 ELSE 0)

\* C30 as stated: the score prioritizeLinks gives every well-formed link of
\* the list is the claim's, so that the list the scraper works through is in
\* non-increasing order of that score.
C30_ScoreBySegmentCount ==
    spc \in {"running", "returned"} =>
        /\ \A i \in 1..Len(links) :
              UrlParses(links[i]) => LinkScore(links[i]) = ScoreBySegments(links[i])
        /\ \A i, j \in 1..Len(links) :
              (i < j /\ UrlParses(prioritizeLinks(links)[i]) /\ UrlParses(prioritizeLinks(links)[j]))
                  => ScoreBySegments(prioritizeLinks(links)[i])
                         >= ScoreBySegments(prioritizeLinks(links)[j])

\* C31 as stated: in the order the scraper works through the links (the
\* batch at hand, then the pending links), no malformed link stands before a
\* well-formed one, whatever the links.
C31_MalformedAfterWellFormed ==
    spc = "running" =>
        LET order == batch \o pendingLinks
        IN  \A i, j \in 1..Len(order) :
                i < j => ~(~UrlParses(order[i]) /\ UrlParses(order[j]))

-----------------------------------------------------------------------------
(* Claims about calculateContentQualityScore and processExtractedText *)

\* C32: for every source the scraper returns, extracted or fallback, 100
\* times the quality score is the text length, at most 5000, plus 1000 with a
\* title, plus 2000 when the url parses and its host contains .edu, .gov or
\* wikipedia.org; so a text of more than 5000 characters counts as 5000, a
\* url that does not parse brings no bonus, and the score is at most 80;
\* extracted sources are returned in non-increasing order of that value.
C32_QualityScoreFormula ==
    spc = "returned" =>
        LET points(src) ==
                (IF TextLen(src.text) < 5000 THEN TextLen(src.text) ELSE 5000)
                + (IF src.title = <<>> THEN 0 ELSE 1000)
                + (IF \E h \in { <<".", "edu">>, <<".", "gov">>, <<"wikipedia", ".", "org">> } :
                         UrlParses(src.url) /\ Includes(Hostname(src.url), h)
                   THEN 2000 ELSE 0)
        IN  /\ \A i \in 1..Len(returned) :
                  /\ calculateContentQualityScore(returned[i]) = points(returned[i])
                  /\ calculateContentQualityScore(returned[i]) <= 8000
                  /\ ~UrlParses(returned[i].url) =>
                        calculateContentQualityScore(returned[i]) <= 6000
            /\ ValidSources # <<>> =>
                  \A i, j \in 1..Len(returned) :
                      i < j => points(returned[i]) >= points(returned[j])

\* Returned: a source of more than 5000 characters from a plain host, a
\* source of as many characters from wikipedia.org before it, and a shorter
\* one from a plain host behind it.
C32_Witness ==
    /\ spc = "returned" /\ ValidSources # <<>>
    /\ \E i, j, k \in 1..Len(returned) :
          /\ i < j /\ j < k
          /\ TextLen(returned[i].text) > 5000 /\ returned[i].url = Link.wiki
          /\ TextLen(returned[j].text) > 5000 /\ returned[j].url = Link.a
          /\ TextLen(returned[k].text) < 5000 /\ returned[k].url = Link.c

\* Returned: the fallback source for a first link that does not parse.
C32_WitnessNoUrl ==
    spc = "returned" /\ Len(returned) = 1 /\ ~UrlParses(returned[1].url)

\* C35 as stated: no extracted source the scraper returns has a text that
\* is one paragraph twice (the article of 150 characters, a blank line and
\* the same 150 characters yields the paragraph once), and a text of more
\* than 8000 characters is 8000 characters and "...".
C35_NoParagraphTwiceAndTruncated ==
    (spc = "returned" /\ ValidSources # <<>>) =>
        \A i \in 1..Len(returned) :
            LET text == returned[i].text
            IN  /\ ~(/\ Len(text) = 3
                     /\ text[1] = text[3]
                     /\ text[2].ch \in {" ", "\n"})
                /\ TextLen(text) > 8000 =>
                      /\ TextLen(text) = 8003
                      /\ text[Len(text)] = Run(".", 3)

-----------------------------------------------------------------------------
(* Claims about the results list *)

\* What the pipeline of link l ends with when it runs alone against the
\* sites' plans: the techniques 0, 1, 2 one after the other.
SequentialResult(l) ==
    LET step(t) == AfterTechnique(t, RunTechnique(l, t, SiteAnswer(l, t)))
    IN  IF step(0).st = "done" THEN step(0).result
        ELSE IF step(1).st = "done" THEN step(1).result
        ELSE step(2).result

\* The results of processing the links one after the other in priority
\* order, stopping after a group of 4 that leaves 3 or more sources.
SequentialResults ==
    LET prioritized == prioritizeLinks(links)
        all == [i \in 1..Len(links) |-> SequentialResult(prioritized[i])]
        valid(k) == Cardinality({i \in 1..k : all[i] # Null})
        stops == {k \in 0..Len(links) :
                     /\ k % MAX_CONCURRENT = 0 \/ k = Len(links)
                     /\ valid(k) >= 3 \/ k = Len(links)}
    IN  SubSeq(all, 1, CHOOSE k \in stops : \A j \in stops : k <= j)

\* C34: while a batch runs, however far its pipelines have come and in
\* whichever order they ended, the results list holds the outcomes of the
\* earlier batches only (whole batches, in priority order, each outcome the
\* one of a sequential run); when the call has returned, the results list and
\* the sources returned are those of the sequential run.
C34_ResultsAsSequential ==
    /\ spc = "running" =>
          /\ Len(results) % MAX_CONCURRENT = 0
          /\ Len(results) = Len(links) - Len(pendingLinks) - Len(batch)
          /\ Len(results) <= Len(SequentialResults)
          /\ results = SubSeq(SequentialResults, 1, Len(results))
    /\ spc = "returned" =>
          /\ results = SequentialResults
          /\ returned = FinalSources(SequentialResults, links)

\* The last pipeline of a batch of four has ended with a source while the
\* first is still at its third fetch and the second at its first; nothing
\* was written to the results.
C34_Witness ==
    /\ spc = "running" /\ Len(pipe) = 4 /\ results = <<>>
    /\ pipe[4].st = "done" /\ pipe[4].result # Null
    /\ pipe[1] = Fetching(2)
    /\ pipe[2] = Fetching(0)

-----------------------------------------------------------------------------
(* The caller's link array *)

\* C38: no step of the call changes the caller's link array, and when the
\* call returns fallback sources their urls are, in the caller's order, the
\* links that parse among the first three of the caller's array (the first
\* link alone when none of the three parses).
C38_CallerLinksUntouched ==
    /\ [][links' = links]_vars
    /\ []((spc = "returned" /\ Len(links) > 0 /\ RealCount(results) = 0) =>
            LET top == SelectSeq(Take(links, 3), UrlParses)
                urls == [i \in 1..Len(returned) |-> returned[i].url]
            IN  urls = (IF top = <<>> THEN <<links[1]>> ELSE top))

\* Fallback sources were returned for a list whose first three links, one of
\* them malformed, are not its three links of highest priority: the batches
\* were taken in priority order, the fallback sources follow the caller's
\* order.
C38_Witness ==
    /\ spc = "returned" /\ Len(links) >= 4 /\ RealCount(results) = 0
    /\ Len(results) = Len(links)
    /\ pendingLinks = <<>>
    /\ prioritizeLinks(links)[1] # links[1]
    /\ ~UrlParses(links[2])
    /\ [i \in 1..Len(returned) |-> returned[i].url] = <<links[1], links[3]>>
    /\ [i \in 1..Len(returned) |-> returned[i].url]
          # SelectSeq(Take(prioritizeLinks(links), 3), UrlParses)

-----------------------------------------------------------------------------
(* The number of real sources *)

\* C39: the results never hold more than 6 real sources; while a batch is
\* running the results of the batches before it hold at most 2; a call that
\* returns without having fetched every link has between 3 and 6 real
\* sources; and what the call returns is its real sources, if it has any, so
\* at most 6, whatever the length of the list.
C39_AtMostSixRealSources ==
    /\ RealCount(results) <= 6
    /\ spc = "running" => RealCount(results) <= 2
    /\ spc = "running" => RealCount(results) + Len(batch) <= 6
    /\ (spc = "returned" /\ pendingLinks # <<>>) =>
          RealCount(results) >= 3 /\ RealCount(results) <= 6
    /\ (spc = "returned" /\ RealCount(results) > 0) =>
          /\ Len(returned) = RealCount(results)
          /\ \A i \in 1..Len(returned) :
                \E j \in 1..Len(results) : results[j] = returned[i]

\* Two sources from the first batch of an eight-link list and four from the
\* second: six sources returned.
C39_Witness ==
    /\ spc = "returned" /\ Len(links) = 8 /\ Len(results) = 8
    /\ RealCount(SubSeq(results, 1, 4)) = 2
    /\ RealCount(SubSeq(results, 5, 8)) = 4
    /\ Len(returned) = 6

\* A call that stopped after the first of two batches, with three sources.
C39_WitnessEarly ==
    /\ spc = "returned" /\ Len(links) = 8 /\ Len(pendingLinks) = 4
    /\ Len(returned) = 3

-----------------------------------------------------------------------------
(* Termination *)

\* C37: every call returns; at all times every entry of the link list is in
\* exactly one of the processed results, the batch at hand and the pending
\* links, and a link has been fetched at most 3 times for each place it has in
\* the list (at most 9 network requests, three per fetchWithTimeout call); a
\* pipeline that has ended stays as it ended while its batch runs, and
\* nothing is fetched once the call has returned.
C37_TerminatesWithinBounds ==
    /\ <>(spc = "returned")
    /\ [](/\ spc = "running" =>
                Len(results) + Len(batch) + Len(pendingLinks) = Len(links)
          /\ \A l \in KnownLinks :
                /\ fetchCount[l] <= 3 * Cardinality({i \in 1..Len(links) : links[i] = l})
                /\ fetchCount[l] * MAX_RETRIES
                      <= 9 * Cardinality({i \in 1..Len(links) : links[i] = l}))
    /\ [][/\ (spc = "running" /\ batch' = batch /\ results' = results) =>
                \A i \in 1..Len(pipe) : pipe[i].st = "done" => pipe'[i] = pipe[i]
          /\ spc = "returned" => fetchCount' = fetchCount]_vars

\* Returned after two batches, one link having been fetched at all three
\* techniques.
C37_Witness ==
    /\ spc = "returned" /\ Len(results) = 5 /\ pendingLinks = <<>>
    /\ \E l \in KnownLinks : fetchCount[l] = 3
    /\ \E l \in KnownLinks : fetchCount[l] = 1

=============================================================================
